---- MODULE Spec2Model ----
(***************************************************************************)
(* A model of src/api/models/bedrock.py: the chat adapters' unary and      *)
(* streaming paths (BedrockModel.chat, BedrockModel.chat_stream, the       *)
(* generic and the Claude parse_stream_response generators,                *)
(* create_response, create_response_stream, _parse_tool_message) and the   *)
(* two dispatch functions get_model and get_embeddings_model.              *)
(*                                                                         *)
(* Text is a sequence of one-character strings, so that startswith,        *)
(* rindex, slicing and lstrip are computed as Python computes them.        *)
(* Python's None is NoneText for a text and None for a finish reason.      *)
(* One character, "J", abbreviates the text of a JSON object that has a    *)
(* "name" key (json.loads accepts it and function["name"] succeeds); every *)
(* other text used here is not JSON.                                       *)
(***************************************************************************)
EXTENDS Integers, Sequences, FiniteSets, TLC

\* ------------------------------------------------------------------ bounds

\* Longest backend event stream handed to the Claude stream parser.
MaxEvents == 5

\* Longest backend event stream handed to the generic stream parser.
MaxGenericEvents == 3

\* Largest token count the backend reports (counts range over 0..MaxTokens).
MaxTokens == 2

\* ------------------------------------------------------------------- text

None == "None"

NoneText == <<"None">>

FunctionTag ==
    <<"<", "f", "u", "n", "c", "t", "i", "o", "n", ">">>

Y_TOOL ==
    <<"Y", "<", "/", "t", "o", "o", "l", ">">>

N_TOOL ==
    <<"N", "<", "/", "t", "o", "o", "l", ">">>

\* Python truthiness of an optional text: None and "" are falsy.
TruthyText(t) == t # NoneText /\ t # <<>>

\* s.startswith(p)
startswith(s, p) == Len(p) <= Len(s) /\ SubSeq(s, 1, Len(p)) = p

\* The 1-based positions at which sub occurs in s.
Occurrences(s, sub) ==
    {i \in 1..(Len(s) - Len(sub) + 1) : SubSeq(s, i, i + Len(sub) - 1) = sub}

\* sub in s
contains(s, sub) == Occurrences(s, sub) # {}

\* s.rindex(sub), 1-based; 0 stands for the ValueError Python raises.
rindex(s, sub) ==
    IF Occurrences(s, sub) = {} THEN 0
    ELSE CHOOSE i \in Occurrences(s, sub) : \A j \in Occurrences(s, sub) : j <= i

\* s.lstrip("\n")
lstrip_newline(s) ==
    LET stops == {i \in 1..Len(s) : s[i] # "\n"}
    IN  IF stops = {} THEN <<>>
        ELSE SubSeq(s, CHOOSE i \in stops : \A j \in stops : i <= j, Len(s))

\* s.replace("\n", " ")
replace_newline(s) == [i \in 1..Len(s) |-> IF s[i] = "\n" THEN " " ELSE s[i]]

\* json.loads(s) followed by function["name"]: succeeds exactly on the text of
\* a JSON object with a name, here "J", with JSON whitespace around it allowed.
json_loads_ok(s) ==
    LET ink == {i \in 1..Len(s) : s[i] # " "}
    IN  /\ Cardinality(ink) = 1
        /\ \A i \in ink : s[i] = "J"

\* ---------------------------------------------------------------- schema

\* Usage(prompt_tokens, completion_tokens, total_tokens)
Usage(p, c, t) == [prompt_tokens |-> p, completion_tokens |-> c, total_tokens |-> t]

\* tool_calls = None; a tool-call list is a non-empty sequence of ToolCall.
NoToolCalls == <<>>

\* ToolCall(function=ResponseFunction(name, arguments))
ToolCall(name, args) == [function |-> [name |-> name, arguments |-> args]]

\* Sentinel result of _parse_tool_message for the HTTPException(500) it raises.
ToolParseError == <<[raised |-> "HTTPException 500: Failed to parse tool response"]>>

\* ClaudeModel._parse_tool_message
parse_tool_message(tool_message) ==
    LET at   == rindex(tool_message, FunctionTag)
        tail == SubSeq(tool_message, at + Len(FunctionTag), Len(tool_message))
    IN  IF at = 0 THEN ToolParseError
        ELSE IF ~json_loads_ok(replace_newline(tail)) THEN ToolParseError
        ELSE <<ToolCall("f", "{\"x\": 1}")>>

\* The finish_reason argument of Choice in create_response.
create_response_finish_reason(tools, finish_reason) ==
    IF tools # NoToolCalls THEN "tool_calls" ELSE finish_reason

\* Variant of create_usage: total_tokens leaves out the output tokens.
create_usage_input_only(input_tokens, output_tokens) ==
    Usage(input_tokens, output_tokens, input_tokens)

\* The Usage built by create_response and create_response_stream.
create_usage(input_tokens, output_tokens) ==
    Usage(input_tokens, output_tokens, input_tokens + output_tokens)

\* BedrockModel.create_response
create_response(message, finish_reason, tools, input_tokens, output_tokens) ==
    [choices |-> << [index |-> 0,
                     message |-> [role |-> "assistant",
                                  tool_calls |-> tools,
                                  content |-> message],
                     finish_reason |->
                         create_response_finish_reason(tools, finish_reason)] >>,
     usage |-> create_usage(input_tokens, output_tokens)]

\* Variant of has_delta: a finish reason alone does not make a delta chunk.
has_delta_without_finish(chunk_message, finish_reason, tools) ==
    TruthyText(chunk_message) \/ tools # NoToolCalls

\* The condition of create_response_stream that selects a delta chunk.
has_delta(chunk_message, finish_reason, tools) ==
    TruthyText(chunk_message) \/ finish_reason # None \/ tools # NoToolCalls

\* BedrockModel.create_response_stream
create_response_stream(chunk_message, finish_reason, tools, input_tokens, output_tokens) ==
    IF has_delta(chunk_message, finish_reason, tools)
    THEN [choices |-> << [index |-> 0,
                          delta |-> [role |-> "assistant",
                                     tool_calls |-> tools,
                                     content |-> chunk_message],
                          finish_reason |-> finish_reason] >>]
    ELSE [choices |-> <<>>,
          usage |-> create_usage(input_tokens, output_tokens)]

\* stream_response_to_bytes(response): one "data: <json>" frame.
stream_response_to_bytes(response) == [kind |-> "chunk", data |-> response]

\* stream_response_to_bytes(): the "data: [DONE]" frame.
DONE == [kind |-> "done"]

\* ------------------------------------------------------------------ state

VARIABLES
    call,           \* the method of the adapter the handler calls: chat or chat_stream
    self,           \* the class whose parse methods run: ClaudeModel or BedrockModel
    chat_request,   \* [tools, stream_options] of the ChatRequest
    pc,             \* position of chat / chat_stream
    err,            \* the exception that left the call, "none" while there is none
    gen,            \* resume point of the parse_stream_response generator
    chunk,          \* the generic generator's local chunk, read again after its yield
    chunk_id,       \* local chunk_id: the number of events decoded
    tool_message,   \* Claude generator's local tool_message
    first_token,    \* Claude generator's local first_token
    index,          \* Claude generator's local index
    yielded,        \* the response the generator has just yielded, if any
    produced,       \* history: every response the generator yielded, in order
    frames,         \* history: every frame chat_stream yielded, in order
    frame_src,      \* history: for each chunk frame, the position in produced it was made from
    metrics_log,    \* history: the invocation metrics the parser read from the backend
    response,       \* the ChatResponse chat returned, if any
    model_id,       \* argument of get_model / get_embeddings_model
    chat_model,     \* result of get_model, if called
    embeddings_model, \* result of get_embeddings_model, if called
    messages,       \* chat_request.messages, or the argument of merge_message
    request_body,   \* what compose_request_body returned or raised, if called
    merged,         \* history: the results of successive merge_message calls
    embeddings_request, \* [input, encoding_format] of the EmbeddingsRequest
    args,           \* what _parse_args returned, if called
    response_body,  \* the embeddings in the backend's response body, if read
    embeddings_response, \* the EmbeddingsResponse embed returned, if any
    tasks,          \* per request being served: its chat_stream call
    locals,         \* per generator frame: parse_stream_response's local variables
    invocations     \* history: how many times the call has invoked the backend

flow_vars ==
    <<call, self, chat_request, pc, err, gen, chunk, chunk_id, tool_message,
      first_token, index, yielded, produced, frames, frame_src, metrics_log,
      response>>

dispatch_vars == <<model_id, chat_model, embeddings_model>>

compose_vars == <<messages, request_body, merged>>

embed_vars == <<embeddings_request, args, response_body, embeddings_response>>

serve_vars == <<tasks, locals>>

\* What the chat and chat_stream steps leave alone.
beside_flow == <<dispatch_vars, compose_vars, embed_vars, serve_vars, invocations>>

\* What the dispatch steps leave alone.
beside_dispatch == <<flow_vars, compose_vars, embed_vars, serve_vars, invocations>>

vars ==
    <<flow_vars, dispatch_vars, compose_vars, embed_vars, serve_vars, invocations>>

\* chat_request.stream_options: absent, or StreamOptions(include_usage).
StreamOptions == {<<>>, <<[include_usage |-> FALSE]>>, <<[include_usage |-> TRUE]>>}

\* chat_request.stream_options and chat_request.stream_options.include_usage
include_usage(req) ==
    Len(req.stream_options) > 0 /\ req.stream_options[1].include_usage

TokenCounts == 0..MaxTokens

\* "amazon-bedrock-invocationMetrics" of a streamed chunk: absent, or
\* <<inputTokenCount, outputTokenCount>>.
NoMetrics == <<>>

InvocationMetrics == {NoMetrics, <<0, 0>>, <<1, 2>>}

\* Text deltas of a Claude stream.
ClaudeDeltas ==
    { <<"Y">>, <<"N">>, <<"\n">>, <<"\n", "H", "i">>, FunctionTag \o <<"J">> }

StopReasons == {None, "end_turn"}

\* An event whose bytes json.loads rejects or that lacks a key the parser reads.
Malformed == [type |-> "malformed"]

\* Decoded events of a Claude response stream.
ClaudeEvents ==
    {[type |-> "message_start"], [type |-> "ping"], Malformed}
    \cup {[type |-> "content_block_delta", text |-> t] : t \in ClaudeDeltas}
    \cup {[type |-> "message_delta", stop_reason |-> r] : r \in StopReasons}
    \cup {[type |-> "message_stop", metrics |-> m] : m \in InvocationMetrics}

\* Decoded chunks of any other family's response stream: the value under
\* text_field_name, the value under finish_reason_field_name, the metrics.
GenericEvents ==
    {Malformed}
    \cup {[type |-> "chunk", text |-> t, finish_reason |-> f, metrics |-> m] :
            t \in {NoneText, <<>>, <<"H", "i">>},
            f \in {None, "stop"},
            m \in InvocationMetrics}

NoChunk == [type |-> "none"]

FlowIdle ==
    /\ call = "none"
    /\ self = "none"
    /\ chat_request = [tools |-> FALSE, stream_options |-> <<>>]
    /\ pc = "idle"
    /\ err = "none"
    /\ gen = "loop"
    /\ chunk = NoChunk
    /\ chunk_id = 0
    /\ tool_message = <<>>
    /\ first_token = TRUE
    /\ index = 0
    /\ yielded = <<>>
    /\ produced = <<>>
    /\ frames = <<>>
    /\ frame_src = <<>>
    /\ metrics_log = <<>>
    /\ response = <<>>

DispatchIdle ==
    /\ model_id = <<>>
    /\ chat_model = "none"
    /\ embeddings_model = "none"

ComposeIdle ==
    /\ messages = <<>>
    /\ request_body = <<>>
    /\ merged = <<>>

EmbedIdle ==
    /\ embeddings_request = <<>>
    /\ args = <<>>
    /\ response_body = <<>>
    /\ embeddings_response = <<>>
    /\ tasks = <<>>
    /\ locals = <<>>
    /\ invocations = 0

\* A request handler has picked an adapter and is about to call chat or
\* chat_stream on it; the generator's locals hold the values parse_stream_response
\* gives them on entry.
Init ==
    /\ call \in {"chat", "chat_stream"}
    /\ self \in {"ClaudeModel", "BedrockModel"}
    /\ chat_request \in [tools : BOOLEAN, stream_options : StreamOptions]
    /\ call = "chat" => chat_request.stream_options = <<>>
    /\ pc = "compose"
    /\ err = "none"
    /\ gen = "loop"
    /\ chunk = NoChunk
    /\ chunk_id = 0
    /\ tool_message = <<>>
    /\ first_token = TRUE
    /\ index = 0
    /\ yielded = <<>>
    /\ produced = <<>>
    /\ frames = <<>>
    /\ frame_src = <<>>
    /\ metrics_log = <<>>
    /\ response = <<>>
    /\ DispatchIdle
    /\ ComposeIdle
    /\ EmbedIdle

\* The call ends by raising e: nothing more runs in it.
Raise(e) ==
    /\ pc' = "error"
    /\ err' = e

stream_locals == <<gen, chunk, chunk_id, tool_message, first_token, index>>

stream_history == <<yielded, produced, frames, frame_src, metrics_log>>

\* ---------------------------------------------------------- chat, chat_stream

\* chat / chat_stream: request_body = self.compose_request_body(chat_request),
\* which returns a body or raises an HTTPException (400 or 500).
compose_request_body ==
    /\ pc = "compose"
    /\ \E outcome \in {"ok", "HTTP400", "HTTP500"} :
         IF outcome = "ok" THEN pc' = "invoke" /\ err' = err
         ELSE Raise(outcome)
    /\ UNCHANGED <<call, self, chat_request, stream_locals, stream_history,
                   response, beside_flow>>

\* invoke_model with a second attempt when the first one fails.
invoke_model_retrying ==
    /\ pc = "invoke"
    /\ invocations' = invocations + 1
    /\ \E outcome \in {"ok", "HTTP400", "HTTP500"} :
         IF outcome = "ok"
         THEN /\ pc' = IF call = "chat" THEN "parse" ELSE "pull"
              /\ err' = err
         ELSE IF invocations = 0 THEN pc' = pc /\ err' = err
         ELSE Raise(outcome)
    /\ UNCHANGED <<call, self, chat_request, stream_locals, stream_history,
                   response, dispatch_vars, compose_vars, embed_vars, serve_vars>>

\* invoke_model: one call of the backend, which answers, or whose
\* ValidationException becomes a 400 and any other exception a 500.
invoke_model ==
    /\ pc = "invoke"
    /\ invocations' = invocations + 1
    /\ \E outcome \in {"ok", "HTTP400", "HTTP500"} :
         IF outcome = "ok"
         THEN /\ pc' = IF call = "chat" THEN "parse" ELSE "pull"
              /\ err' = err
         ELSE Raise(outcome)
    /\ UNCHANGED <<call, self, chat_request, stream_locals, stream_history,
                   response, dispatch_vars, compose_vars, embed_vars, serve_vars>>

\* ------------------------------------------------- parse_stream_response

\* The generator yields r to chat_stream's for loop and will resume at `resume`.
Yield(r, resume) ==
    /\ yielded' = <<r>>
    /\ produced' = Append(produced, r)
    /\ gen' = resume
    /\ pc' = "frame"
    /\ err' = err

\* The generator goes back to the head of its for loop without yielding.
Continue ==
    /\ gen' = "loop"
    /\ pc' = pc
    /\ err' = err
    /\ UNCHANGED <<yielded, produced>>

\* The generator returns, which ends chat_stream's for loop.
Return ==
    /\ gen' = "ended"
    /\ pc' = "finish"
    /\ err' = err
    /\ UNCHANGED <<yielded, produced>>

\* Variant of usage_response: the two token counts change places.
usage_response_swapped(m) ==
    create_response_stream(NoneText, None, NoToolCalls, m[2], m[1])

\* The usage-only response both parsers build from invocation metrics m.
usage_response(m) == create_response_stream(NoneText, None, NoToolCalls, m[1], m[2])

\* BedrockModel.parse_stream_response, one iteration up to its first yield:
\* decode the event, count it, yield the delta built from its text and finish
\* reason.
parse_stream_response_next ==
    /\ pc = "pull" /\ self = "BedrockModel" /\ gen = "loop"
    /\ chunk_id < MaxGenericEvents
    /\ \E e \in GenericEvents :
         IF e.type = "malformed"
         THEN /\ Raise("Exception")
              /\ UNCHANGED <<gen, chunk, chunk_id, yielded, produced, metrics_log>>
         ELSE /\ chunk' = e
              /\ chunk_id' = chunk_id + 1
              /\ metrics_log' = IF e.metrics # NoMetrics
                                THEN Append(metrics_log, e.metrics)
                                ELSE metrics_log
              /\ Yield(create_response_stream(e.text, e.finish_reason,
                                              NoToolCalls, 0, 0), "metrics")
    /\ UNCHANGED <<call, self, chat_request, tool_message, first_token, index,
                   frames, frame_src, response, beside_flow>>

\* BedrockModel.parse_stream_response, resumed after its first yield: a second,
\* usage-only response when the chunk has invocation metrics.
parse_stream_response_metrics ==
    /\ pc = "pull" /\ self = "BedrockModel" /\ gen = "metrics"
    /\ IF chunk.metrics # NoMetrics
       THEN Yield(usage_response(chunk.metrics), "loop")
       ELSE Continue
    /\ UNCHANGED <<call, self, chat_request, chunk, chunk_id, tool_message,
                   first_token, index, frames, frame_src, metrics_log, response,
                   beside_flow>>

\* ClaudeModel.parse_stream_response on a content_block_delta with text t.
claude_content_block_delta(t) ==
    IF chat_request.tools /\ tool_message = <<>> /\ t = <<"Y">>
    THEN tool_message' = <<"Y">> /\ UNCHANGED <<first_token, index>> /\ Continue
    ELSE IF chat_request.tools /\ tool_message # <<>>
    THEN tool_message' = tool_message \o t /\ UNCHANGED <<first_token, index>>
         /\ Continue
    ELSE IF chat_request.tools /\ index < 3
    THEN index' = index + 1 /\ UNCHANGED <<tool_message, first_token>> /\ Continue
    ELSE IF chat_request.tools /\ first_token
    THEN /\ first_token' = FALSE
         /\ UNCHANGED <<tool_message, index>>
         /\ Yield(create_response_stream(lstrip_newline(t), None, NoToolCalls, 0, 0),
                  "loop")
    ELSE /\ UNCHANGED <<tool_message, first_token, index>>
         /\ Yield(create_response_stream(t, None, NoToolCalls, 0, 0), "loop")

\* ClaudeModel.parse_stream_response on a message_delta with the given stop reason.
claude_message_delta(stop_reason) ==
    IF chat_request.tools /\ tool_message # <<>>
    THEN IF parse_tool_message(tool_message) = ToolParseError
         THEN Raise("HTTP500") /\ UNCHANGED <<gen, yielded, produced>>
         ELSE Yield(create_response_stream(NoneText, None,
                                           parse_tool_message(tool_message), 0, 0),
                    "after_tool")
    ELSE Yield(create_response_stream(<<>>, stop_reason, NoToolCalls, 0, 0), "loop")

\* Variant of claude_message_stop: the invocation metrics are not read.
claude_message_stop_no_usage(m) == Return

\* ClaudeModel.parse_stream_response on message_stop.
claude_message_stop(m) ==
    IF m # NoMetrics
    THEN Yield(usage_response(m), "break")
    ELSE Return

\* ClaudeModel.parse_stream_response, one iteration of its for loop up to the
\* first yield, continue, break or raise.
claude_parse_stream_response_next ==
    /\ pc = "pull" /\ self = "ClaudeModel" /\ gen = "loop"
    /\ chunk_id < MaxEvents
    /\ \E e \in ClaudeEvents :
         IF e.type = "malformed"
         THEN /\ Raise("Exception")
              /\ UNCHANGED <<gen, chunk_id, tool_message, first_token, index,
                             yielded, produced, metrics_log>>
         ELSE /\ chunk_id' = chunk_id + 1
              /\ CASE e.type = "message_stop" ->
                        /\ claude_message_stop(e.metrics)
                        /\ metrics_log' = IF e.metrics # NoMetrics
                                          THEN Append(metrics_log, e.metrics)
                                          ELSE metrics_log
                        /\ UNCHANGED <<tool_message, first_token, index>>
                   [] e.type = "message_delta" ->
                        /\ claude_message_delta(e.stop_reason)
                        /\ UNCHANGED <<tool_message, first_token, index, metrics_log>>
                   [] e.type = "content_block_delta" ->
                        /\ claude_content_block_delta(e.text)
                        /\ UNCHANGED metrics_log
                   [] OTHER ->
                        /\ Continue
                        /\ UNCHANGED <<tool_message, first_token, index, metrics_log>>
    /\ UNCHANGED <<call, self, chat_request, chunk, frames, frame_src, response,
                   beside_flow>>

\* ClaudeModel.parse_stream_response resumed after the tool-call chunk of a
\* message_delta: the chunk built from chunk_message "" and the finish reason
\* "tool_calls" follows.
claude_after_tool ==
    /\ pc = "pull" /\ self = "ClaudeModel" /\ gen = "after_tool"
    /\ Yield(create_response_stream(<<>>, "tool_calls", NoToolCalls, 0, 0), "loop")
    /\ UNCHANGED <<call, self, chat_request, chunk, chunk_id, tool_message,
                   first_token, index, frames, frame_src, metrics_log, response,
                   beside_flow>>

\* ClaudeModel.parse_stream_response resumed after the usage chunk of
\* message_stop: break.
claude_break ==
    /\ pc = "pull" /\ self = "ClaudeModel" /\ gen = "break"
    /\ Return
    /\ UNCHANGED <<call, self, chat_request, chunk, chunk_id, tool_message,
                   first_token, index, frames, frame_src, metrics_log, response,
                   beside_flow>>

\* The backend's event iterator is exhausted: the for loop of either parser
\* ends and the generator returns.
body_exhausted ==
    /\ pc = "pull" /\ gen = "loop"
    /\ Return
    /\ UNCHANGED <<call, self, chat_request, chunk, chunk_id, tool_message,
                   first_token, index, frames, frame_src, metrics_log, response,
                   beside_flow>>

\* ------------------------------------------------------------ chat_stream

\* Variant of writes_frame: include_usage is not consulted.
writes_frame_always(req, stream_response) == TRUE

\* The test chat_stream applies to a stream response before yielding its frame.
writes_frame(req, stream_response) ==
    stream_response.choices # <<>> \/ include_usage(req)

\* Variant of chat_stream_frame: a frame that is written goes out ahead of the
\* frames already written.
chat_stream_frame_reordered ==
    /\ pc = "frame"
    /\ IF writes_frame(chat_request, yielded[1])
       THEN /\ frames' = <<stream_response_to_bytes(yielded[1])>> \o frames
            /\ frame_src' = <<Len(produced)>> \o frame_src
       ELSE UNCHANGED <<frames, frame_src>>
    /\ yielded' = <<>>
    /\ pc' = "pull"
    /\ UNCHANGED <<call, self, chat_request, err, stream_locals, produced,
                   metrics_log, response, beside_flow>>

\* chat_stream, the body of its for loop on the response just yielded.
chat_stream_frame ==
    /\ pc = "frame"
    /\ IF writes_frame(chat_request, yielded[1])
       THEN /\ frames' = Append(frames, stream_response_to_bytes(yielded[1]))
            /\ frame_src' = Append(frame_src, Len(produced))
       ELSE UNCHANGED <<frames, frame_src>>
    /\ yielded' = <<>>
    /\ pc' = "pull"
    /\ UNCHANGED <<call, self, chat_request, err, stream_locals, produced,
                   metrics_log, response, beside_flow>>

\* Variant of chat_stream_done: the [DONE] frame is yielded by the loop's last
\* pass as well as after the loop.
chat_stream_done_twice ==
    /\ pc = "finish"
    /\ frames' = frames \o <<DONE, DONE>>
    /\ pc' = "done"
    /\ UNCHANGED <<call, self, chat_request, err, stream_locals, yielded,
                   produced, frame_src, metrics_log, response, beside_flow>>

\* Variant of chat_stream_done: the [DONE] frame is yielded in a finally
\* clause, so also when the loop was left by an exception.
chat_stream_done_finally ==
    /\ call = "chat_stream"
    /\ pc \in {"finish", "error"}
    /\ \A i \in 1..Len(frames) : frames[i].kind # "done"
    /\ frames' = Append(frames, DONE)
    /\ pc' = IF pc = "finish" THEN "done" ELSE pc
    /\ UNCHANGED <<call, self, chat_request, err, stream_locals, yielded,
                   produced, frame_src, metrics_log, response, beside_flow>>

\* chat_stream after its for loop: the [DONE] frame.
chat_stream_done ==
    /\ pc = "finish"
    /\ frames' = Append(frames, DONE)
    /\ pc' = "done"
    /\ UNCHANGED <<call, self, chat_request, err, stream_locals, yielded,
                   produced, frame_src, metrics_log, response, beside_flow>>

\* ---------------------------------------------------------- parse_response

\* Texts a unary Claude response carries in content[0].text.
ClaudeTexts ==
    { Y_TOOL \o FunctionTag \o <<"J">>,
      Y_TOOL \o FunctionTag \o <<"\n", "J", "\n">>,
      Y_TOOL \o <<"H", "i">>,
      N_TOOL \o <<"\n", "\n", "H", "i">>,
      N_TOOL,
      <<"Y">>,
      <<"\n", "H", "i">>,
      <<>> }

\* Texts a unary response of another family carries under text_field_name.
GenericTexts == {NoneText, <<>>, <<"H", "i">>}

\* message[8:]
drop8(message) == SubSeq(message, 9, Len(message))

\* Variant of claude_parse_message: the text is kept as content beside the
\* tool calls.
claude_parse_message_keeps_text(req, message, stop_reason) ==
    IF req.tools /\ startswith(message, Y_TOOL)
    THEN [tools |-> parse_tool_message(message), message |-> message,
          finish_reason |-> "tool_calls"]
    ELSE IF req.tools /\ startswith(message, N_TOOL)
    THEN [tools |-> NoToolCalls, message |-> lstrip_newline(drop8(message)),
          finish_reason |-> stop_reason]
    ELSE [tools |-> NoToolCalls, message |-> message, finish_reason |-> stop_reason]

\* ClaudeModel.parse_response: the tools, message and finish_reason it passes
\* to create_response; tools is ToolParseError when _parse_tool_message raises.
claude_parse_message(req, message, stop_reason) ==
    IF req.tools /\ startswith(message, Y_TOOL)
    THEN [tools |-> parse_tool_message(message), message |-> NoneText,
          finish_reason |-> "tool_calls"]
    ELSE IF req.tools /\ startswith(message, N_TOOL)
    THEN [tools |-> NoToolCalls, message |-> lstrip_newline(drop8(message)),
          finish_reason |-> stop_reason]
    ELSE [tools |-> NoToolCalls, message |-> message, finish_reason |-> stop_reason]

\* chat: return self.parse_response(...) of ClaudeModel.
claude_parse_response ==
    /\ pc = "parse" /\ self = "ClaudeModel"
    /\ \/ \E message \in ClaudeTexts, stop_reason \in {"end_turn", "max_tokens"},
             input_tokens \in TokenCounts, output_tokens \in TokenCounts :
            LET a == claude_parse_message(chat_request, message, stop_reason)
            IN  IF a.tools = ToolParseError
                THEN Raise("HTTP500") /\ UNCHANGED response
                ELSE /\ response' = <<create_response(a.message, a.finish_reason,
                                                      a.tools, input_tokens,
                                                      output_tokens)>>
                     /\ pc' = "done"
                     /\ err' = err
       \/ \* the body is not JSON or lacks content, stop_reason or usage
          Raise("Exception") /\ UNCHANGED response
    /\ UNCHANGED <<call, self, chat_request, stream_locals, stream_history,
                   beside_flow>>

\* chat: return self.parse_response(...) of BedrockModel, with the text, the
\* finish reason and the usage the family's get_message_* hooks return.
parse_response ==
    /\ pc = "parse" /\ self = "BedrockModel"
    /\ \/ \E message \in GenericTexts, finish_reason \in {None, "stop"},
             input_tokens \in TokenCounts, output_tokens \in TokenCounts :
            /\ response' = <<create_response(message, finish_reason, NoToolCalls,
                                             input_tokens, output_tokens)>>
            /\ pc' = "done"
            /\ err' = err
       \/ \* the body is not JSON or lacks a field the family's hooks index
          Raise("Exception") /\ UNCHANGED response
    /\ UNCHANGED <<call, self, chat_request, stream_locals, stream_history,
                   beside_flow>>

\* ------------------------------------------------------------------- Spec

Next ==
    \/ compose_request_body
    \/ invoke_model
    \/ parse_response
    \/ claude_parse_response
    \/ parse_stream_response_next
    \/ parse_stream_response_metrics
    \/ claude_parse_stream_response_next
    \/ claude_after_tool
    \/ claude_break
    \/ body_exhausted
    \/ chat_stream_frame
    \/ chat_stream_done

Spec == Init /\ [][Next]_vars

\* ---------------------------------------------- get_model, get_embeddings_model

imported_model ==
    <<"i", "m", "p", "o", "r", "t", "e", "d", "-", "m", "o", "d", "e", "l">>

anthropic_claude ==
    <<"a", "n", "t", "h", "r", "o", "p", "i", "c", ".", "c", "l", "a", "u", "d", "e">>

meta_llama ==
    <<"m", "e", "t", "a", ".", "l", "l", "a", "m", "a">>

mistral_mistral ==
    <<"m", "i", "s", "t", "r", "a", "l", ".", "m", "i", "s", "t", "r", "a", "l">>

mistral_mixtral ==
    <<"m", "i", "s", "t", "r", "a", "l", ".", "m", "i", "x", "t", "r", "a", "l">>

cohere_command_r ==
    <<"c", "o", "h", "e", "r", "e", ".", "c", "o", "m", "m", "a", "n", "d", "-", "r">>

cohere_embed_multilingual_v3 ==
    <<"c", "o", "h", "e", "r", "e", ".", "e", "m", "b", "e", "d", "-", "m", "u", "l",
      "t", "i", "l", "i", "n", "g", "u", "a", "l", "-", "v", "3">>

cohere_embed_english_v3 ==
    <<"c", "o", "h", "e", "r", "e", ".", "e", "m", "b", "e", "d", "-", "e", "n", "g",
      "l", "i", "s", "h", "-", "v", "3">>

amazon_titan_embed_text_v1 ==
    <<"a", "m", "a", "z", "o", "n", ".", "t", "i", "t", "a", "n", "-", "e", "m", "b",
      "e", "d", "-", "t", "e", "x", "t", "-", "v", "1">>

amazon_titan_embed_image_v1 ==
    <<"a", "m", "a", "z", "o", "n", ".", "t", "i", "t", "a", "n", "-", "e", "m", "b",
      "e", "d", "-", "i", "m", "a", "g", "e", "-", "v", "1">>

\* How the model ids tried begin: the family prefixes, proper prefixes of
\* them, a family prefix that is not at the start, the embedding ids, nothing.
IdHeads ==
    { anthropic_claude, meta_llama, mistral_mistral, mistral_mixtral,
      cohere_command_r,
      <<"a", "n", "t", "h", "r", "o", "p", "i", "c", ".">>,
      <<"m", "i", "s", "t", "r", "a", "l", ".", "m", "i">>,
      <<"c", "o", "h", "e", "r", "e", ".", "c", "o", "m", "m", "a", "n", "d">>,
      <<"x">> \o anthropic_claude,
      <<"a", "r", "n", ":">>,
      <<>>,
      cohere_embed_multilingual_v3, cohere_embed_english_v3,
      amazon_titan_embed_text_v1, amazon_titan_embed_image_v1 }

\* How they continue.
IdTails ==
    { <<>>,
      <<"-", "v", "2">>,
      imported_model,
      <<"/">> \o imported_model \o <<"/", "a">> }

ModelIds == {h \o t : h \in IdHeads, t \in IdTails}

\* Variant of get_model: the family prefixes are tried before "imported-model".
get_model_prefix_first(id) ==
    IF startswith(id, anthropic_claude) THEN "ClaudeModel"
    ELSE IF startswith(id, meta_llama) THEN "LlamaModel"
    ELSE IF startswith(id, mistral_mistral) \/ startswith(id, mistral_mixtral)
    THEN "MistralModel"
    ELSE IF startswith(id, cohere_command_r) THEN "CohereCommandModel"
    ELSE "CustomImportModel"

\* get_model: the class of the adapter it returns.
get_model(id) ==
    IF contains(id, imported_model) THEN "CustomImportModel"
    ELSE IF startswith(id, anthropic_claude) THEN "ClaudeModel"
    ELSE IF startswith(id, meta_llama) THEN "LlamaModel"
    ELSE IF startswith(id, mistral_mistral) \/ startswith(id, mistral_mixtral)
    THEN "MistralModel"
    ELSE IF startswith(id, cohere_command_r) THEN "CohereCommandModel"
    ELSE "CustomImportModel"

\* SUPPORTED_BEDROCK_EMBEDDING_MODELS: id -> display name.
SUPPORTED_BEDROCK_EMBEDDING_MODELS ==
    { <<cohere_embed_multilingual_v3, "Cohere Embed Multilingual">>,
      <<cohere_embed_english_v3, "Cohere Embed English">> }

\* SUPPORTED_BEDROCK_EMBEDDING_MODELS.get(model_id, "")
embedding_model_name(id) ==
    IF \E e \in SUPPORTED_BEDROCK_EMBEDDING_MODELS : e[1] = id
    THEN (CHOOSE e \in SUPPORTED_BEDROCK_EMBEDDING_MODELS : e[1] = id)[2]
    ELSE ""

\* Variant of get_embeddings_model: an id is matched by the table's ids as
\* prefixes, not looked up.
get_embeddings_model_by_prefix(id) ==
    IF \E e \in SUPPORTED_BEDROCK_EMBEDDING_MODELS : startswith(id, e[1])
    THEN "CohereEmbeddingsModel"
    ELSE "HTTP400"

\* get_embeddings_model: the class of the adapter it returns, or the
\* HTTPException(400) it raises.
get_embeddings_model(id) ==
    IF embedding_model_name(id) \in {"Cohere Embed Multilingual", "Cohere Embed English"}
    THEN "CohereEmbeddingsModel"
    ELSE "HTTP400"

\* A handler calls get_model(model_id).
call_get_model ==
    /\ chat_model = "none"
    /\ chat_model' = get_model(model_id)
    /\ UNCHANGED <<model_id, embeddings_model, beside_dispatch>>

\* A handler calls get_embeddings_model(model_id).
call_get_embeddings_model ==
    /\ embeddings_model = "none"
    /\ embeddings_model' = get_embeddings_model(model_id)
    /\ UNCHANGED <<model_id, chat_model, beside_dispatch>>

DispatchInit ==
    /\ model_id \in ModelIds
    /\ chat_model = "none"
    /\ embeddings_model = "none"
    /\ FlowIdle
    /\ ComposeIdle
    /\ EmbedIdle

DispatchNext ==
    \/ call_get_model
    \/ call_get_embeddings_model

SpecDispatch == DispatchInit /\ [][DispatchNext]_vars

\* ----------------------------------------------------------- merge_message

\* Longest list handed to merge_message on its own.
MaxMerge == 4

\* A content that is a str.
Str(s) == [kind |-> "str", val |-> s]

\* A content that is a list of parts.
List(parts) == [kind |-> "list", val |-> parts]

\* content = None
NoContent == [kind |-> "None", val |-> <<>>]

\* {"role": role, "content": content}
Dict(role, content) == [role |-> role, content |-> content]

RECURSIVE merge_loop(_, _, _, _, _)
\* BedrockModel.merge_message, its for loop from message i on and the final
\* append; prev_role = None is None, merged_content is a text.
merge_loop(ms, i, merged_messages, prev_role, merged_content) ==
    IF i > Len(ms)
    THEN IF merged_content # <<>>
         THEN Append(merged_messages, Dict(prev_role, Str(merged_content)))
         ELSE merged_messages
    ELSE LET role    == ms[i].role
             content == ms[i].content
             flushed == IF prev_role # None
                        THEN Append(merged_messages,
                                    Dict(prev_role, Str(merged_content)))
                        ELSE merged_messages
         IN  IF role # prev_role \/ content.kind = "list"
             THEN IF content.kind = "str"
                  THEN merge_loop(ms, i + 1, flushed, role, content.val)
                  ELSE merge_loop(ms, i + 1, Append(flushed, Dict(role, content)),
                                  None, <<>>)
             ELSE IF content.val = merged_content
             THEN merge_loop(ms, i + 1, merged_messages, prev_role, merged_content)
             ELSE merge_loop(ms, i + 1, merged_messages, prev_role,
                             merged_content \o <<"\n">> \o content.val)

\* BedrockModel.merge_message
merge_message(ms) == merge_loop(ms, 1, <<>>, None, <<>>)

\* Lists of at most n elements of S.
SeqUpTo(S, n) == UNION {[1..k -> S] : k \in 0..n}

\* Message dicts handed to merge_message on its own: two roles, string
\* contents that are empty, equal, different or already joined, a list content.
MergeDicts ==
    {Dict(r, c) :
        r \in {"user", "assistant"},
        c \in {Str(<<>>), Str(<<"a">>), Str(<<"b">>), Str(<<"a", "\n", "b">>),
               List(<<"part">>)}}

\* ---------------------------------------------------- compose_request_body

\* Longest chat_request.messages composed into a backend body.
MaxMessages == 3

\* A message of chat_request.messages; tool_calls tells whether the message
\* has tool calls (only assistant messages do).
ChatMessage(role, content, tool_calls) ==
    [role |-> role, content |-> content, tool_calls |-> tool_calls]

\* not message.content: None and "" are falsy, and so is an empty list.
FalsyContent(content) == content.val = <<>>

\* str(content), as the prompt templates and str.format render a content; the
\* repr of a list is one piece of text.
Format(content) ==
    IF content.kind = "str" THEN content.val
    ELSE IF content.kind = "None" THEN NoneText
    ELSE <<"repr(list)">>

\* The result of a compose_request_body that raises e.
Raised(e) == [raised |-> e]

TOOL == <<"<", "t", "o", "o", "l", ">">>

\* tool_prompt.format(tools=tools_str), one piece of text.
tool_prompt == <<"tool_prompt">>

\* The parts of a user message's list content: a text part, an image given as a
\* base64 data URL, an image URL whose GET answers 200, one whose GET does not.
ContentParts == {"text", "image_data_url", "image_url_200", "image_url_404"}

\* ClaudeModel._parse_content_parts: the converted parts, or the
\* HTTPException(500) of _get_base64_image.
parse_content_parts(content) ==
    IF \E i \in 1..Len(content.val) : content.val[i] = "image_url_404"
    THEN Raised("HTTP500")
    ELSE [raised |-> "none",
          parts |-> [i \in 1..Len(content.val) |->
                        IF content.val[i] = "text" THEN [type |-> "text"]
                        ELSE [type |-> "image"]]]

\* The text ClaudeModel.compose_request_body makes of an assistant message
\* without content (the backquotes of the format string are left out).
tool_content == <<"[Tool use for f with id 1 with the following input]", "\n", "{}">>

\* The text it makes of a tool message.
tool_result(content) ==
    <<"[Tool result with matching id 1 of ">> \o Format(content) \o <<"] ">>

RECURSIVE claude_convert(_, _, _, _)
\* ClaudeModel.compose_request_body, its for loop from message i on: the system
\* prompt and the converted messages, or what the loop raises.
claude_convert(ms, i, system_prompt, converted_messages) ==
    IF i > Len(ms)
    THEN [raised |-> "none", system_prompt |-> system_prompt,
          converted_messages |-> converted_messages]
    ELSE LET message == ms[i]
         IN  IF message.role = "system"
             THEN IF message.content.kind # "str" THEN Raised("AssertionError")
                  ELSE claude_convert(ms, i + 1,
                                      system_prompt \o message.content.val \o <<"\n">>,
                                      converted_messages)
             ELSE IF message.role = "user" /\ message.content.kind # "str"
             THEN IF message.content.kind = "None" THEN Raised("TypeError")
                  ELSE IF parse_content_parts(message.content).raised # "none"
                  THEN parse_content_parts(message.content)
                  ELSE claude_convert(ms, i + 1, system_prompt,
                           Append(converted_messages,
                                  Dict("user",
                                       List(parse_content_parts(message.content).parts))))
             ELSE IF message.role = "assistant" /\ FalsyContent(message.content)
             THEN IF ~message.tool_calls THEN Raised("TypeError")
                  ELSE claude_convert(ms, i + 1, system_prompt,
                           Append(converted_messages,
                                  Dict("assistant", Str(tool_content))))
             ELSE IF message.role = "tool"
             THEN claude_convert(ms, i + 1, system_prompt,
                      Append(converted_messages,
                             Dict("user", Str(tool_result(message.content)))))
             ELSE claude_convert(ms, i + 1, system_prompt,
                      Append(converted_messages,
                             Dict(message.role, message.content)))

\* Variant of claude_with_tools: the "<tool>" message is appended after the
\* converted messages were merged.
claude_with_tools_after_merge(tools, c) ==
    LET system_prompt == IF tools THEN c.system_prompt \o tool_prompt
                         ELSE c.system_prompt
        merged_messages == merge_message(c.converted_messages)
    IN  [raised |-> "none",
         anthropic_version |-> "bedrock-2023-05-31",
         messages |-> IF tools
                      THEN Append(merged_messages, Dict("assistant", Str(TOOL)))
                      ELSE merged_messages,
         system |-> IF system_prompt # <<>> THEN <<system_prompt>> ELSE <<>>,
         stop_sequences |-> IF tools THEN << <<"</function>">> >> ELSE <<>>]

\* ClaudeModel.compose_request_body after its for loop, on the loop's result c:
\* the tool prompt, the "<tool>" message and the stop sequence when the request
\* has tools, then merge_message; system and stop_sequences are optional keys.
claude_with_tools(tools, c) ==
    LET system_prompt == IF tools THEN c.system_prompt \o tool_prompt
                         ELSE c.system_prompt
        converted_messages ==
            IF tools
            THEN Append(c.converted_messages, Dict("assistant", Str(TOOL)))
            ELSE c.converted_messages
    IN  [raised |-> "none",
         anthropic_version |-> "bedrock-2023-05-31",
         messages |-> merge_message(converted_messages),
         system |-> IF system_prompt # <<>> THEN <<system_prompt>> ELSE <<>>,
         stop_sequences |-> IF tools THEN << <<"</function>">> >> ELSE <<>>]

\* ClaudeModel.compose_request_body: the body, or what it raises.
ClaudeModel_compose_request_body(tools, ms) ==
    LET c == claude_convert(ms, 1, <<>>, <<>>)
    IN  IF c.raised # "none" THEN c ELSE claude_with_tools(tools, c)

bos_token == <<"<s>">>

eos_token == <<"</s>">>

RECURSIVE inst_prompt(_, _, _, _, _)
\* The for loop of LlamaModel.create_llama2_prompt and of
\* MistralModel._convert_prompt (the same loop) from message i on: the prompt
\* and the system prompt, or what the loop raises.
inst_prompt(ms, i, prompt, end_turn, system_prompt) ==
    IF i > Len(ms)
    THEN [raised |-> "none", prompt |-> prompt, system_prompt |-> system_prompt]
    ELSE LET msg == ms[i]
         IN  IF msg.role = "system"
             THEN IF msg.content.kind # "str" THEN Raised("TypeError")
                  ELSE inst_prompt(ms, i + 1, prompt, end_turn,
                                   system_prompt \o <<"\n">> \o msg.content.val
                                                 \o <<"\n">>)
             ELSE IF msg.role = "tool"
             THEN Raised("HTTP500")
             ELSE IF msg.content.kind # "str" THEN Raised("HTTP400")
             ELSE IF msg.role = "user"
             THEN inst_prompt(ms, i + 1,
                              (IF end_turn THEN prompt \o bos_token \o <<"[INST] ">>
                               ELSE prompt)
                                 \o msg.content.val \o <<" [/INST] ">>,
                              FALSE, system_prompt)
             ELSE inst_prompt(ms, i + 1,
                              prompt \o msg.content.val \o eos_token,
                              TRUE, system_prompt)

\* LlamaModel.create_llama2_prompt
create_llama2_prompt(ms) ==
    LET p == inst_prompt(ms, 1, <<>>, FALSE, <<>>)
        system_prompt == IF p.system_prompt # <<>>
                         THEN <<"<<SYS>>">> \o p.system_prompt \o <<"<</SYS>>">>
                         ELSE p.system_prompt
    IN  IF p.raised # "none" THEN p
        ELSE [raised |-> "none",
              prompt |-> bos_token \o <<"[INST] ">> \o system_prompt \o p.prompt]

\* LlamaModel.create_llama3_prompt
create_llama3_prompt(ms) ==
    LET RECURSIVE prompt_lines(_)
        prompt_lines(i) ==
            IF i > Len(ms) THEN <<>>
            ELSE <<"<|start_header_id|>", ms[i].role, "<|end_header_id|>", "\n", "\n">>
                    \o Format(ms[i].content) \o <<"<|eot_id|>">> \o prompt_lines(i + 1)
    IN  [raised |-> "none",
         prompt |-> <<"<|begin_of_text|>">> \o prompt_lines(1)
                      \o <<"<|start_header_id|>", "assistant", "<|end_header_id|>",
                           "\n", "\n">>]

meta_llama2 ==
    <<"m", "e", "t", "a", ".", "l", "l", "a", "m", "a", "2">>

\* LlamaModel.compose_request_body: the body's prompt, or what it raises.
LlamaModel_compose_request_body(model, ms) ==
    IF startswith(model, meta_llama2) THEN create_llama2_prompt(ms)
    ELSE create_llama3_prompt(ms)

\* MistralModel._convert_prompt and compose_request_body.
MistralModel_compose_request_body(ms) ==
    LET p == inst_prompt(ms, 1, <<>>, FALSE, <<>>)
    IN  IF p.raised # "none" THEN p
        ELSE [raised |-> "none",
              prompt |-> bos_token \o <<"[INST] ">> \o p.system_prompt \o p.prompt]

\* Variant of cohere_parse_message: every role is taken, a role other than
\* user as CHATBOT.
cohere_parse_message_any_role(message) ==
    [raised |-> "none",
     role |-> IF message.role = "user" THEN "USER" ELSE "CHATBOT",
     message |-> message.content]

\* CohereCommandModel._parse_message
cohere_parse_message(message) ==
    IF message.role \notin {"user", "assistant"} THEN Raised("HTTP400")
    ELSE [raised |-> "none",
          role |-> IF message.role = "user" THEN "USER" ELSE "CHATBOT",
          message |-> message.content]

\* CohereCommandModel.compose_request_body: messages[-1] of an empty list
\* raises IndexError.
CohereCommandModel_compose_request_body(ms) ==
    IF ms = <<>> THEN Raised("IndexError")
    ELSE IF ms[Len(ms)].role # "user" THEN Raised("HTTP400")
    ELSE IF \E i \in 1..(Len(ms) - 1) : cohere_parse_message(ms[i]).raised # "none"
    THEN Raised("HTTP400")
    ELSE [raised |-> "none",
          message |-> ms[Len(ms)].content,
          chat_history |-> [i \in 1..(Len(ms) - 1) |->
                               [role |-> cohere_parse_message(ms[i]).role,
                                message |-> cohere_parse_message(ms[i]).message]]]

\* CustomImportModel.create_prompt and compose_request_body.
CustomImportModel_compose_request_body(ms) ==
    LET RECURSIVE prompt_lines(_)
        prompt_lines(i) ==
            IF i > Len(ms) THEN <<>>
            ELSE <<"<|", ms[i].role, "|>">> \o Format(ms[i].content) \o <<"</s>">>
                    \o prompt_lines(i + 1)
    IN  [raised |-> "none", prompt |-> prompt_lines(1) \o <<"<|assistant|>">>]

\* The messages a chat request is composed of: a system message, user
\* messages with string and list content, assistant messages with a text,
\* with the text "<tool>", with empty or no content (with and without tool
\* calls), a tool message.
ChatMessages ==
    { ChatMessage("system", Str(<<"S">>), FALSE),
      ChatMessage("user", Str(<<"H">>), FALSE),
      ChatMessage("user", List(<<"text">>), FALSE),
      ChatMessage("user", List(<<"image_url_404">>), FALSE),
      ChatMessage("assistant", Str(<<"A">>), FALSE),
      ChatMessage("assistant", Str(TOOL), FALSE),
      ChatMessage("assistant", Str(<<>>), TRUE),
      ChatMessage("assistant", NoContent, TRUE),
      ChatMessage("assistant", NoContent, FALSE),
      ChatMessage("tool", Str(<<"R">>), FALSE) }

\* chat_request.model of the requests composed, one or two ids per adapter.
ComposeModelIds ==
    { anthropic_claude \o <<"-", "v", "2">>,
      meta_llama2 \o <<"-", "1", "3", "b">>,
      meta_llama \o <<"3", "-", "8", "b">>,
      mistral_mistral \o <<"-", "7", "b">>,
      cohere_command_r \o <<"-", "v", "1">>,
      imported_model }

\* A handler has called get_model(chat_request.model) and is about to call the
\* adapter, whose first step is compose_request_body(chat_request).
ComposeInit ==
    /\ model_id \in ComposeModelIds
    /\ chat_model = get_model(model_id)
    /\ embeddings_model = "none"
    /\ call = "compose_request_body"
    /\ self = chat_model
    /\ chat_request \in [tools : BOOLEAN, stream_options : {<<>>}]
    /\ messages \in SeqUpTo(ChatMessages, MaxMessages)
    /\ request_body = <<>>
    /\ merged = <<>>
    /\ pc = "compose"
    /\ err = "none"
    /\ gen = "loop"
    /\ chunk = NoChunk
    /\ chunk_id = 0
    /\ tool_message = <<>>
    /\ first_token = TRUE
    /\ index = 0
    /\ yielded = <<>>
    /\ produced = <<>>
    /\ frames = <<>>
    /\ frame_src = <<>>
    /\ metrics_log = <<>>
    /\ response = <<>>
    /\ EmbedIdle

\* What the compose steps leave alone.
beside_compose ==
    <<flow_vars, dispatch_vars, messages, merged, embed_vars, serve_vars,
      invocations>>

claude_compose_request_body ==
    /\ request_body = <<>> /\ self = "ClaudeModel"
    /\ request_body' = <<ClaudeModel_compose_request_body(chat_request.tools, messages)>>
    /\ UNCHANGED beside_compose

llama_compose_request_body ==
    /\ request_body = <<>> /\ self = "LlamaModel"
    /\ request_body' = <<LlamaModel_compose_request_body(model_id, messages)>>
    /\ UNCHANGED beside_compose

mistral_compose_request_body ==
    /\ request_body = <<>> /\ self = "MistralModel"
    /\ request_body' = <<MistralModel_compose_request_body(messages)>>
    /\ UNCHANGED beside_compose

cohere_compose_request_body ==
    /\ request_body = <<>> /\ self = "CohereCommandModel"
    /\ request_body' = <<CohereCommandModel_compose_request_body(messages)>>
    /\ UNCHANGED beside_compose

custom_compose_request_body ==
    /\ request_body = <<>> /\ self = "CustomImportModel"
    /\ request_body' = <<CustomImportModel_compose_request_body(messages)>>
    /\ UNCHANGED beside_compose

ComposeNext ==
    \/ claude_compose_request_body
    \/ llama_compose_request_body
    \/ mistral_compose_request_body
    \/ cohere_compose_request_body
    \/ custom_compose_request_body

SpecCompose == ComposeInit /\ [][ComposeNext]_vars

\* merge_message is about to be called on a list of message dicts.
MergeInit ==
    /\ messages \in SeqUpTo(MergeDicts, MaxMerge)
    /\ request_body = <<>>
    /\ merged = <<>>
    /\ FlowIdle
    /\ DispatchIdle
    /\ EmbedIdle

\* merge_message is called on messages, then on its own result.
call_merge_message ==
    /\ Len(merged) < 2
    /\ merged' = Append(merged, merge_message(IF merged = <<>> THEN messages
                                              ELSE merged[Len(merged)]))
    /\ UNCHANGED <<flow_vars, dispatch_vars, messages, request_body, embed_vars,
                   serve_vars, invocations>>

MergeNext == call_merge_message

SpecMerge == MergeInit /\ [][MergeNext]_vars

\* -------------------------------------------------------------- embeddings

\* Longest list of texts in an embeddings request.
MaxInputs == 2

\* An element of an Iterable input that is an int.
Token(n) == [kind |-> "int", val |-> <<n>>]

\* An element of an Iterable input that is itself an Iterable of ints.
Tokens(ns) == [kind |-> "ints", val |-> ns]

\* An int that is an element of a list input, where the elements of a list of
\* strings are texts: the tag "int" and the int's digits.
IntElement(n) == <<"int", ToString(n)>>

\* An input that is an Iterable but neither a str nor a list.
Iter(elements) == [kind |-> "iterable", val |-> elements]

\* ENCODER.decode(tokens) of the cl100k_base encoding: the concatenation of
\* the tokens' texts; 15339 is "hello", 1917 is " world".
decode(tokens) ==
    LET RECURSIVE pieces(_)
        pieces(i) ==
            IF i > Len(tokens) THEN <<>>
            ELSE (IF tokens[i] = 15339 THEN <<"h", "e", "l", "l", "o">>
                  ELSE IF tokens[i] = 1917 THEN <<" ", "w", "o", "r", "l", "d">>
                  ELSE <<"?">>) \o pieces(i + 1)
    IN  pieces(1)

\* CohereEmbeddingsModel._parse_args: the texts of the body.
cohere_texts(input) ==
    IF input.kind = "str" THEN <<input.val>>
    ELSE IF input.kind = "list" THEN input.val
    ELSE LET inner == input.val
             ints  == {i \in 1..Len(inner) : inner[i].kind = "int"}
             RECURSIVE texts(_)
             texts(i) ==
                 IF i > Len(inner) THEN <<>>
                 ELSE IF inner[i].kind = "int" THEN texts(i + 1)
                 ELSE <<decode(inner[i].val)>> \o texts(i + 1)
             RECURSIVE encodings(_)
             encodings(i) ==
                 IF i > Len(inner) THEN <<>>
                 ELSE IF inner[i].kind = "int" THEN inner[i].val \o encodings(i + 1)
                 ELSE encodings(i + 1)
         IN  IF ints # {} THEN Append(texts(1), decode(encodings(1))) ELSE texts(1)

\* CohereEmbeddingsModel._parse_args
CohereEmbeddingsModel_parse_args(request) ==
    [raised |-> "none",
     texts |-> cohere_texts(request.input),
     input_type |-> "search_document",
     truncate |-> "END"]

\* TitanEmbeddingsModel._parse_args; embeddingConfig tells whether the key is
\* set.
TitanEmbeddingsModel_parse_args(model, request) ==
    IF request.input.kind = "str"
    THEN [raised |-> "none", inputText |-> request.input.val,
          embeddingConfig |-> model = amazon_titan_embed_image_v1]
    ELSE IF request.input.kind = "list" /\ Len(request.input.val) = 1
    THEN [raised |-> "none", inputText |-> request.input.val[1],
          embeddingConfig |-> model = amazon_titan_embed_image_v1]
    ELSE Raised("ValueError")

\* np.array(embedding, dtype=np.float32): each float is rounded to the nearest
\* float32; 0.5 is one, 0.1 is not.
float32(embedding) ==
    [k \in 1..Len(embedding) |->
        IF embedding[k] = "0.1" THEN "0.100000001490116" ELSE embedding[k]]

\* base64.b64encode(arr.tobytes())
b64encode(arr) == [base64 |-> arr]

\* Variant of create_embeddings_response: the index counts from one.
create_embeddings_response_from_one(embeddings, input_tokens, output_tokens, encoding_format) ==
    [data |-> [i \in 1..Len(embeddings) |->
                  [index |-> i,
                   embedding |-> IF encoding_format = "base64"
                                 THEN b64encode(float32(embeddings[i]))
                                 ELSE [floats |-> embeddings[i]]]],
     usage |-> [prompt_tokens |-> input_tokens,
                total_tokens |-> input_tokens + output_tokens]]

\* BedrockEmbeddingsModel._create_response; enumerate counts from 0, and
\* position i of a sequence here is Python's position i - 1.
create_embeddings_response(embeddings, input_tokens, output_tokens, encoding_format) ==
    [data |-> [i \in 1..Len(embeddings) |->
                  [index |-> i - 1,
                   embedding |-> IF encoding_format = "base64"
                                 THEN b64encode(float32(embeddings[i]))
                                 ELSE [floats |-> embeddings[i]]]],
     usage |-> [prompt_tokens |-> input_tokens,
                total_tokens |-> input_tokens + output_tokens]]

\* The texts embedded.
EmbedTexts == {<<"a">>, <<"b", "b">>}

\* The inputs of the embeddings requests: a string, lists of strings, a list
\* of ints, and Iterables that are not lists, of ints, of lists of ints, of
\* both mixed.
EmbedInputs ==
    {Str(t) : t \in EmbedTexts}
    \cup {List(l) : l \in SeqUpTo(EmbedTexts, MaxInputs)}
    \cup { List(<<IntElement(15339), IntElement(1917)>>) }
    \cup { Iter(<<Token(15339), Token(1917)>>),
           Iter(<<Tokens(<<15339>>), Tokens(<<1917>>)>>),
           Iter(<<Token(15339), Tokens(<<1917>>)>>) }

\* The embedding vectors a backend returns.
Vectors == {<<"0.5">>, <<"0.1">>}

\* The vector the backend computes for a text.
Embed(text) == IF Len(text) = 1 THEN <<"0.5">> ELSE <<"0.1">>

\* A handler is about to call embed on an embeddings adapter.
EmbedInit ==
    /\ call = "embed"
    /\ self \in {"CohereEmbeddingsModel", "TitanEmbeddingsModel"}
    /\ model_id \in IF self = "CohereEmbeddingsModel"
                    THEN {cohere_embed_multilingual_v3, cohere_embed_english_v3}
                    ELSE {amazon_titan_embed_text_v1, amazon_titan_embed_image_v1}
    /\ chat_model = "none"
    /\ embeddings_model = "none"
    /\ embeddings_request \in [input : EmbedInputs, encoding_format : {"float", "base64"}]
    /\ args = <<>>
    /\ response_body = <<>>
    /\ embeddings_response = <<>>
    /\ tasks = <<>>
    /\ locals = <<>>
    /\ invocations = 0
    /\ chat_request = [tools |-> FALSE, stream_options |-> <<>>]
    /\ pc = "parse_args"
    /\ err = "none"
    /\ gen = "loop"
    /\ chunk = NoChunk
    /\ chunk_id = 0
    /\ tool_message = <<>>
    /\ first_token = TRUE
    /\ index = 0
    /\ yielded = <<>>
    /\ produced = <<>>
    /\ frames = <<>>
    /\ frame_src = <<>>
    /\ metrics_log = <<>>
    /\ response = <<>>
    /\ ComposeIdle

\* What the embed steps leave alone, pc, err and the embeddings variables apart.
beside_embed ==
    <<call, self, chat_request, stream_locals, stream_history, response,
      dispatch_vars, compose_vars, embeddings_request, serve_vars, invocations>>

\* embed: self._parse_args(embeddings_request), evaluated before _invoke_model
\* is called.
parse_args ==
    /\ pc = "parse_args"
    /\ LET a == IF self = "CohereEmbeddingsModel"
                THEN CohereEmbeddingsModel_parse_args(embeddings_request)
                ELSE TitanEmbeddingsModel_parse_args(model_id, embeddings_request)
       IN  /\ args' = <<a>>
           /\ IF a.raised # "none" THEN Raise(a.raised)
              ELSE pc' = "invoke" /\ err' = err
    /\ UNCHANGED <<response_body, embeddings_response, beside_embed>>

\* BedrockEmbeddingsModel._invoke_model: one call of the backend, which
\* answers, or whose ValidationException becomes a 400 and any other exception
\* a 500.
embeddings_invoke_model ==
    /\ pc = "invoke" /\ call = "embed"
    /\ invocations' = invocations + 1
    /\ \E outcome \in {"ok", "HTTP400", "HTTP500"} :
         IF outcome = "ok" THEN pc' = "read" /\ err' = err
         ELSE Raise(outcome)
    /\ UNCHANGED <<args, response_body, embeddings_response, call, self,
                   chat_request, stream_locals, stream_history, response,
                   dispatch_vars, compose_vars, embeddings_request, serve_vars>>

\* CohereEmbeddingsModel.embed after _invoke_model: the body is read, and the
\* response is made of its embeddings; the backend returns the vector of each
\* text, or any list of vectors, or a body without "embeddings".
cohere_embed ==
    /\ pc = "read" /\ self = "CohereEmbeddingsModel"
    /\ \/ \E embeddings \in
               SeqUpTo(Vectors, MaxInputs + 1)
               \cup {[i \in 1..Len(args[1].texts) |-> Embed(args[1].texts[i])]} :
            /\ response_body' = <<embeddings>>
            /\ embeddings_response' =
                  <<create_embeddings_response(embeddings, 0, 0,
                                               embeddings_request.encoding_format)>>
            /\ pc' = "done"
            /\ err' = err
       \/ /\ Raise("Exception")
          /\ UNCHANGED <<response_body, embeddings_response>>
    /\ UNCHANGED <<args, beside_embed>>

\* TitanEmbeddingsModel.embed after _invoke_model: the one embedding of the
\* body and its inputTextTokenCount; the encoding format is not passed on.
titan_embed ==
    /\ pc = "read" /\ self = "TitanEmbeddingsModel"
    /\ \/ \E embedding \in Vectors, input_tokens \in TokenCounts :
            /\ response_body' = <<<<embedding>>>>
            /\ embeddings_response' =
                  <<create_embeddings_response(<<embedding>>, input_tokens, 0, "float")>>
            /\ pc' = "done"
            /\ err' = err
       \/ /\ Raise("Exception")
          /\ UNCHANGED <<response_body, embeddings_response>>
    /\ UNCHANGED <<args, beside_embed>>

EmbedNext ==
    \/ parse_args
    \/ embeddings_invoke_model
    \/ cohere_embed
    \/ titan_embed

SpecEmbed == EmbedInit /\ [][EmbedNext]_vars

\* A chat request is about to be composed, or an embeddings request is about
\* to be served.
RejectInit == ComposeInit \/ EmbedInit

RejectNext == ComposeNext \/ EmbedNext

SpecReject == RejectInit /\ [][RejectNext]_vars

\* ----------------------------------------------------------------- claims

\* Positions of frames that hold [DONE].
DonePositions == {i \in 1..Len(frames) : frames[i].kind = "done"}

\* Positions of usage-only frames: chunk frames whose choices list is empty.
UsageOnlyFrames ==
    {i \in 1..Len(frames) : frames[i].kind = "chunk" /\ frames[i].data.choices = <<>>}

\* Positions of frames that carry a delta.
DeltaFrames ==
    {i \in 1..Len(frames) : frames[i].kind = "chunk" /\ frames[i].data.choices # <<>>}

\* The number of yielded responses chat_stream's loop body has dealt with.
Handled == Len(produced) - Len(yielded)

\* The request asks for usage: stream_options is present with include_usage true.
IncludeUsageSet == chat_request.stream_options = <<[include_usage |-> TRUE]>>

\* The chat_stream call has returned normally.
StreamDone == call = "chat_stream" /\ pc = "done"

\* C1: in a chat_stream run that raises nothing, [DONE] is emitted exactly once
\* and is the last frame: no frame ever follows a [DONE] frame, a run that has
\* completed ends in [DONE] with every yielded response dealt with before it,
\* and a run that has neither completed nor raised can always take a step.
C1_DoneOnceAndLast ==
    /\ \A i \in DonePositions : i = Len(frames)
    /\ StreamDone =>
         /\ Cardinality(DonePositions) = 1
         /\ frames[Len(frames)].kind = "done"
         /\ yielded = <<>>
         /\ Len(frames) = Len(frame_src) + 1
    /\ (call = "chat_stream" /\ pc \notin {"done", "error"}) => ENABLED Next

\* A completed stream whose [DONE] follows a delta frame and a usage-only frame.
C1_Witness ==
    /\ StreamDone
    /\ UsageOnlyFrames # {}
    /\ DeltaFrames # {}
    /\ frames[Len(frames)].kind = "done"

\* C2: at most one usage-only frame is emitted in any stream.
C2_AtMostOneUsageFrame == Cardinality(UsageOnlyFrames) <= 1

\* The yielded response at position k of produced has been written as a frame.
Written(k) ==
    \E i \in 1..Len(frame_src) :
        /\ frame_src[i] = k
        /\ frames[i].kind = "chunk"
        /\ frames[i].data = produced[k]

\* C3: a yielded response with empty choices is written as a frame if and only
\* if stream_options.include_usage is true (never when stream_options is absent
\* or include_usage is false), and one with non-empty choices is always written.
C3_UsageFrameIffIncludeUsage ==
    \A k \in 1..Handled :
        /\ produced[k].choices = <<>> => (Written(k) <=> IncludeUsageSet)
        /\ produced[k].choices # <<>> => Written(k)

\* include_usage is false, an empty-choices response was dropped and a delta
\* was written.
C3_Witness ==
    /\ chat_request.stream_options = <<[include_usage |-> FALSE]>>
    /\ \E k \in 1..Handled : produced[k].choices = <<>> /\ ~Written(k)
    /\ \E k \in 1..Handled : produced[k].choices # <<>> /\ Written(k)

RECURSIVE IsSubsequence(_, _)
\* a is b with some elements left out.
IsSubsequence(a, b) ==
    IF a = <<>> THEN TRUE
    ELSE IF b = <<>> THEN FALSE
    ELSE IF Head(a) = Head(b) THEN IsSubsequence(Tail(a), Tail(b))
    ELSE IsSubsequence(a, Tail(b))

\* The responses carried by the chunk frames, in frame order.
FrameData == [i \in 1..Len(frame_src) |-> frames[i].data]

\* C5: the chunk frames appear in the order the parser yielded their
\* responses: each frame is made from one yielded response, the responses the
\* frames were made from are strictly increasing positions of produced (no frame
\* twice, none out of order), and the frames' contents are produced with some
\* responses left out.
C5_FramesInProducedOrder ==
    /\ \A i \in 1..Len(frame_src) :
         /\ frames[i].kind = "chunk"
         /\ frame_src[i] \in 1..Len(produced)
         /\ frames[i].data = produced[frame_src[i]]
    /\ \A i, j \in 1..Len(frame_src) : i < j => frame_src[i] < frame_src[j]
    /\ IsSubsequence(FrameData, produced)

\* Two different frames were written with a dropped response between them.
C5_Witness ==
    /\ Len(frame_src) >= 2
    /\ frame_src[2] > frame_src[1] + 1
    /\ frames[1].data # frames[2].data

\* The step leaves chat_stream by an exception raised while the parser runs.
StreamRaises == call = "chat_stream" /\ pc = "pull" /\ pc' = "error"

\* C6: an error raised while the stream is produced ends it without [DONE]: a
\* chat_stream call that has raised holds no [DONE] frame and never emits
\* another frame; the step that raises yields no response and writes no frame;
\* and the parser raises either on a malformed event or, with status 500, on a
\* message_delta whose buffered tool envelope does not parse.
C6_ErrorEndsStreamWithoutDone ==
    /\ []((call = "chat_stream" /\ pc = "error") => DonePositions = {})
    /\ [][(call = "chat_stream" /\ pc = "error")
            => (pc' = "error" /\ frames' = frames /\ produced' = produced)]_vars
    /\ [][StreamRaises => (frames' = frames /\ produced' = produced)]_vars
    /\ [][StreamRaises =>
            \/ err' = "Exception"
            \/ /\ err' = "HTTP500"
               /\ self = "ClaudeModel"
               /\ chat_request.tools
               /\ tool_message # <<>>
               /\ parse_tool_message(tool_message) = ToolParseError]_vars

\* A stream that had written a frame was ended by a tool envelope that did not
\* parse.
C6_Witness ==
    /\ call = "chat_stream"
    /\ pc = "error"
    /\ err = "HTTP500"
    /\ tool_message # <<>>
    /\ Len(frames) >= 1
    /\ DonePositions = {}

\* total_tokens = prompt_tokens + completion_tokens
SumLaw(usage) == usage.total_tokens = usage.prompt_tokens + usage.completion_tokens

\* C7: every ChatResponse has exactly one choice, with index 0, and a usage
\* whose total_tokens is prompt_tokens + completion_tokens; the usage of every
\* usage-only stream response obeys the same sum.
C7_OneChoiceAndUsageSum ==
    /\ \A i \in 1..Len(response) :
         /\ Len(response[i].choices) = 1
         /\ response[i].choices[1].index = 0
         /\ SumLaw(response[i].usage)
    /\ \A k \in 1..Len(produced) :
         produced[k].choices = <<>> => SumLaw(produced[k].usage)

\* A Claude tool-call response reporting 2 prompt and 1 completion tokens.
C7_Witness ==
    /\ Len(response) = 1
    /\ response[1].usage = Usage(2, 1, 3)
    /\ response[1].choices[1].message.tool_calls # NoToolCalls

ChatAdapters ==
    {"ClaudeModel", "LlamaModel", "MistralModel", "CohereCommandModel",
     "CustomImportModel"}

\* C9: get_model returns an adapter for every id, by priority: an id that
\* contains "imported-model" gets the Generic Imported adapter even when it
\* begins with a family prefix; otherwise the family prefix decides; an id with
\* neither gets the Generic Imported adapter.
C9_GetModelPriority ==
    /\ chat_model = "none" => ENABLED call_get_model
    /\ chat_model # "none" =>
         /\ chat_model \in ChatAdapters
         /\ contains(model_id, imported_model) => chat_model = "CustomImportModel"
         /\ ~contains(model_id, imported_model) =>
              /\ chat_model = "ClaudeModel" <=> startswith(model_id, anthropic_claude)
              /\ chat_model = "LlamaModel" <=> startswith(model_id, meta_llama)
              /\ chat_model = "MistralModel" <=>
                    (startswith(model_id, mistral_mistral)
                       \/ startswith(model_id, mistral_mixtral))
              /\ chat_model = "CohereCommandModel" <=>
                    startswith(model_id, cohere_command_r)

\* An id that begins "anthropic.claude" and contains "imported-model" got the
\* Generic Imported adapter.
C9_Witness ==
    /\ startswith(model_id, anthropic_claude)
    /\ contains(model_id, imported_model)
    /\ chat_model = "CustomImportModel"

\* C10: get_embeddings_model returns the Cohere embeddings adapter exactly for
\* cohere.embed-multilingual-v3 and cohere.embed-english-v3 and raises a 400 for
\* every other id, the Titan embedding ids among them.
C10_EmbeddingsClosedTable ==
    embeddings_model # "none" =>
        /\ embeddings_model = "CohereEmbeddingsModel" <=>
              model_id \in {cohere_embed_multilingual_v3, cohere_embed_english_v3}
        /\ embeddings_model # "CohereEmbeddingsModel" => embeddings_model = "HTTP400"
        /\ model_id \in {amazon_titan_embed_text_v1, amazon_titan_embed_image_v1} =>
              embeddings_model = "HTTP400"

\* A Titan embedding id was refused with a 400.
C10_Witness ==
    /\ model_id = amazon_titan_embed_text_v1
    /\ embeddings_model = "HTTP400"

\* s.endswith(suffix)
EndsWith(s, suffix) ==
    Len(suffix) <= Len(s) /\ SubSeq(s, Len(s) - Len(suffix) + 1, Len(s)) = suffix

\* The Claude adapter has composed a body for a request with a tool catalog.
ClaudeToolBody ==
    /\ self = "ClaudeModel"
    /\ chat_request.tools
    /\ request_body # <<>>
    /\ request_body[1].raised = "none"

\* The last element of the composed body's messages list.
LastBodyMessage == request_body[1].messages[Len(request_body[1].messages)]

\* The positions of the request messages whose role is not system.
NonSystem == {i \in 1..Len(messages) : messages[i].role # "system"}

\* The role of the last request message that is not a system message, None
\* when there is none.
LastRole ==
    IF NonSystem = {} THEN None
    ELSE messages[CHOOSE i \in NonSystem : \A j \in NonSystem : j <= i].role

\* The text of that message as the adapter converts an assistant message.
LastAssistantText ==
    LET m == messages[CHOOSE i \in NonSystem : \A j \in NonSystem : j <= i]
    IN  IF FalsyContent(m.content) THEN tool_content ELSE m.content.val

C12_MergeIdempotent ==
    Len(merged) = 2 => merged[2] = merged[1]

\* A compose_request_body call has raised.
ComposeRejected == request_body # <<>> /\ request_body[1].raised # "none"

\* The adapter builds an [INST] prompt: Llama 2 or Mistral.
InstFamily ==
    \/ self = "LlamaModel" /\ startswith(model_id, meta_llama2)
    \/ self = "MistralModel"

\* C13: every adapter rejection of a malformed request is a 400, and status
\* 500 is reserved for an image-URL fetch failure, an unparseable tool envelope
\* and a backend exception: a Llama 2 or Mistral request with a tool message or
\* a non-string content, a Cohere Command R request whose last message is not
\* a user message or whose history has a role other than user and assistant,
\* and a Titan request with a multi-element input each fail with status 400.
C13_RejectionsAre400 ==
    /\ ComposeRejected =>
         \/ request_body[1].raised = "HTTP400"
         \/ /\ request_body[1].raised = "HTTP500"
            /\ self = "ClaudeModel"
            /\ \E i \in 1..Len(messages) :
                 /\ messages[i].content.kind = "list"
                 /\ \E k \in 1..Len(messages[i].content.val) :
                      messages[i].content.val[k] = "image_url_404"
    /\ (/\ request_body # <<>>
        /\ InstFamily
        /\ \E i \in 1..Len(messages) :
             messages[i].role = "tool" \/ messages[i].content.kind # "str") =>
         request_body[1].raised = "HTTP400"
    /\ (/\ request_body # <<>>
        /\ self = "CohereCommandModel"
        /\ messages # <<>>
        /\ \/ messages[Len(messages)].role # "user"
           \/ \E i \in 1..(Len(messages) - 1) :
                messages[i].role \notin {"user", "assistant"}) =>
         request_body[1].raised = "HTTP400"
    /\ (/\ args # <<>>
        /\ self = "TitanEmbeddingsModel"
        /\ embeddings_request.input.kind # "str"
        /\ Len(embeddings_request.input.val) # 1) =>
         pc = "error" /\ err = "HTTP400"
    /\ (args # <<>> /\ args[1].raised # "none") => args[1].raised = "HTTP400"
    /\ (call = "embed" /\ err = "HTTP500") => args # <<>> /\ args[1].raised = "none"

\* The embeddings of the request's input in input order, for a string or a
\* list of strings.
InputVectors ==
    LET input == embeddings_request.input
    IN  IF input.kind = "str" THEN <<Embed(input.val)>>
        ELSE [i \in 1..Len(input.val) |-> Embed(input.val[i])]

\* The float32 array a data element's embedding holds.
Decoded(embedding) ==
    IF embeddings_request.encoding_format = "base64" /\ self = "CohereEmbeddingsModel"
    THEN embedding.base64
    ELSE float32(embedding.floats)

\* C14: in every EmbeddingsResponse, data[i].index = i for all i (counting
\* from 0) and len(data) is the number of embeddings the backend returned, each
\* data element holding the embedding at its index; so when the backend returns
\* one embedding per submitted text, the element with index i holds the
\* embedding of the request's input i; for float and for base64.
C14_EmbeddingsIndexLaw ==
    embeddings_response # <<>> =>
        LET data == embeddings_response[1].data
        IN  /\ Len(data) = Len(response_body[1])
            /\ \A i \in 1..Len(data) :
                 /\ data[i].index = i - 1
                 /\ Decoded(data[i].embedding) = float32(response_body[1][i])
            /\ (/\ self = "CohereEmbeddingsModel"
                /\ embeddings_request.input.kind \in {"str", "list"}
                /\ response_body[1] = InputVectors) =>
                 \A i \in 1..Len(data) :
                     Decoded(data[i].embedding) = float32(InputVectors[data[i].index + 1])

\* A base64 response to the two texts "bb", "a": index 0 holds the embedding
\* of "bb" and index 1 that of "a".
C14_Witness ==
    /\ embeddings_response # <<>>
    /\ embeddings_request = [input |-> List(<< <<"b", "b">>, <<"a">> >>),
                             encoding_format |-> "base64"]
    /\ Len(embeddings_response[1].data) = 2
    /\ embeddings_response[1].data[1] =
          [index |-> 0, embedding |-> b64encode(float32(Embed(<<"b", "b">>)))]
    /\ embeddings_response[1].data[2] =
          [index |-> 1, embedding |-> b64encode(float32(Embed(<<"a">>)))]

\* ------------------------------------------------- requests served together

\* Longest event stream a request served on its own consumes.
MaxStream == 4

\* Longest event stream each of two requests served together consumes.
MaxTogether == 2

Requests == {"r1", "r2"}

\* The local variables of ClaudeModel.parse_stream_response as its generator
\* body starts (the generic parser has chunk_id alone).
InitialLocals ==
    [chunk_id |-> 0, tool_message |-> <<>>, first_token |-> TRUE, index |-> 0]

\* What one iteration of a parser's for loop does: its locals afterwards, the
\* responses it yields in order, whether it raises, whether it breaks.
Iteration(l, out, raised, ended) ==
    [l |-> l, out |-> out, raised |-> raised, ended |-> ended]

\* Variant of tool_call_chunks: one response carries the tool calls and the
\* finish reason.
tool_call_chunks_in_one(tools) ==
    <<create_response_stream(NoneText, "tool_calls", tools, 0, 0)>>

\* The responses ClaudeModel.parse_stream_response yields on a message_delta
\* once the buffered tool message is parsed: the tool calls with no finish
\* reason, then the finish reason "tool_calls" with the chunk_message "".
tool_call_chunks(tools) ==
    << create_response_stream(NoneText, None, tools, 0, 0),
       create_response_stream(<<>>, "tool_calls", NoToolCalls, 0, 0) >>

\* ClaudeModel.parse_stream_response, one iteration of its for loop on event e.
claude_iteration(req, l0, e) ==
    LET l == [l0 EXCEPT !.chunk_id = @ + 1]
        text_chunk(t) == create_response_stream(t, None, NoToolCalls, 0, 0)
    IN  CASE e.type = "malformed" -> Iteration(l0, <<>>, "Exception", FALSE)
          [] e.type = "message_stop" ->
                Iteration(l, IF e.metrics # NoMetrics
                             THEN <<usage_response(e.metrics)>> ELSE <<>>,
                          "none", TRUE)
          [] e.type = "message_delta" ->
                IF req.tools /\ l.tool_message # <<>>
                THEN IF parse_tool_message(l.tool_message) = ToolParseError
                     THEN Iteration(l, <<>>, "HTTP500", FALSE)
                     ELSE Iteration(l, tool_call_chunks(
                                           parse_tool_message(l.tool_message)),
                                    "none", FALSE)
                ELSE Iteration(l, <<create_response_stream(<<>>, e.stop_reason,
                                                           NoToolCalls, 0, 0)>>,
                               "none", FALSE)
          [] e.type = "content_block_delta" ->
                IF req.tools /\ l.tool_message = <<>> /\ e.text = <<"Y">>
                THEN Iteration([l EXCEPT !.tool_message = <<"Y">>], <<>>, "none", FALSE)
                ELSE IF req.tools /\ l.tool_message # <<>>
                THEN Iteration([l EXCEPT !.tool_message = @ \o e.text], <<>>,
                               "none", FALSE)
                ELSE IF req.tools /\ l.index < 3
                THEN Iteration([l EXCEPT !.index = @ + 1], <<>>, "none", FALSE)
                ELSE IF req.tools /\ l.first_token
                THEN Iteration([l EXCEPT !.first_token = FALSE],
                               <<text_chunk(lstrip_newline(e.text))>>, "none", FALSE)
                ELSE Iteration(l, <<text_chunk(e.text)>>, "none", FALSE)
          [] OTHER -> Iteration(l, <<>>, "none", FALSE)

\* BedrockModel.parse_stream_response, one iteration of its for loop on event e.
generic_iteration(req, l0, e) ==
    IF e.type = "malformed" THEN Iteration(l0, <<>>, "Exception", FALSE)
    ELSE Iteration([l0 EXCEPT !.chunk_id = @ + 1],
                   <<create_response_stream(e.text, e.finish_reason,
                                            NoToolCalls, 0, 0)>>
                   \o (IF e.metrics # NoMetrics
                       THEN <<usage_response(e.metrics)>> ELSE <<>>),
                   "none", FALSE)

\* self.parse_stream_response, one iteration: the adapter's parser.
iteration(req, l0, e) ==
    IF req.self = "ClaudeModel" THEN claude_iteration(req, l0, e)
    ELSE generic_iteration(req, l0, e)

\* The frame whose locals the generator serving request r reads and writes:
\* each call of parse_stream_response has its own.
locals_shared(r) == "r1"

locals_of(r) == r

\* The events a backend stream delivers to a request's parser.
ServedEvents(req, together) ==
    IF req.self = "ClaudeModel"
    THEN {e \in ClaudeEvents :
            /\ e.type # "ping"
            /\ e.type = "message_stop" => e.metrics # <<0, 0>>
            /\ together => /\ e.type \notin {"malformed", "message_start"}
                           /\ e.type = "message_delta" => e.stop_reason # None
                           /\ e.type = "message_stop" => e.metrics # NoMetrics
                           /\ e.type = "content_block_delta" => e.text[1] # "\n"}
    ELSE {e \in GenericEvents :
            /\ e.type = "chunk" => e.text # NoneText /\ e.metrics # <<0, 0>>
            /\ together => e.type = "chunk" /\ e.finish_reason = None}

\* A chat_stream call once invoke_model has returned the backend's stream: the
\* request, where the call stands, the state of response["body"], the events
\* the parser has taken from it, the responses the parser yields for the
\* current event that chat_stream has not handled yet, what the parser does
\* once they are handled, the frames written, the exception raised if any, and
\* the number of frames written when the consumer closed the stream.
Task(req) ==
    [request |-> req, pc |-> "pull", body |-> "open", events |-> <<>>,
     pending |-> <<>>, ended |-> FALSE, frames |-> <<>>, err |-> "none",
     closed_at |-> 0]

ServedRequests ==
    [self : {"ClaudeModel", "BedrockModel"}, tools : BOOLEAN,
     stream_options : {<<>>, <<[include_usage |-> TRUE]>>}]

Active == DOMAIN tasks

\* The longest stream an active request consumes.
StreamBound == IF Cardinality(Active) = 1 THEN MaxStream ELSE MaxTogether

ServeIdle == FlowIdle /\ DispatchIdle /\ ComposeIdle /\ invocations = 0
             /\ embeddings_request = <<>> /\ args = <<>>
             /\ response_body = <<>> /\ embeddings_response = <<>>

\* One request served on its own.
ServeInit ==
    /\ ServeIdle
    /\ \E req \in ServedRequests : tasks = [r \in {"r1"} |-> Task(req)]
    /\ locals = [r \in {"r1"} |-> InitialLocals]

\* Two streaming requests served at the same time: a Claude request with tools
\* and a request of either kind.
TogetherInit ==
    /\ ServeIdle
    /\ \E req1, req2 \in ServedRequests :
         /\ include_usage(req1) /\ include_usage(req2)
         /\ req1.self = "ClaudeModel" /\ req1.tools
         /\ req2.self = "BedrockModel" => ~req2.tools
         /\ tasks = [r \in Requests |-> Task(IF r = "r1" THEN req1 ELSE req2)]
    /\ locals = [r \in Requests |-> InitialLocals]

\* A recorded Claude stream, position by position: the three deltas of the
\* "N</tool>" sentinel, the answer, the message_delta, the message_stop.
Recorded ==
    << {[type |-> "content_block_delta", text |-> <<"N">>]},
       {[type |-> "content_block_delta",
         text |-> <<"<", "/", "t", "o", "o", "l", ">">>]},
       {[type |-> "content_block_delta", text |-> <<"\n", "\n">>]},
       {[type |-> "content_block_delta", text |-> t] :
            t \in {<<"H", "e", "l", "l", "o">>, <<"\n", "H", "e", "l", "l", "o">>}},
       {[type |-> "message_delta", stop_reason |-> f] : f \in StopReasons},
       {[type |-> "message_stop", metrics |-> m] : m \in {NoMetrics, <<1, 2>>}} >>

\* A Claude request served from the recorded stream.
ReplayInit ==
    /\ ServeIdle
    /\ \E req \in ServedRequests :
         /\ req.self = "ClaudeModel"
         /\ tasks = [r \in {"replay"} |-> Task(req)]
    /\ locals = [r \in {"replay"} |-> InitialLocals]

\* The events the body of request r can deliver next.
BackendEvents(r) ==
    LET n == Len(tasks[r].events)
    IN  IF r = "replay"
        THEN IF n < Len(Recorded) THEN Recorded[n + 1] ELSE {}
        ELSE IF n < StreamBound
             THEN ServedEvents(tasks[r].request, Cardinality(Active) > 1)
             ELSE {}

beside_serve == <<flow_vars, dispatch_vars, compose_vars, embed_vars, invocations>>

\* The states response["body"] can be in once the call that holds it is over.
\* Neither chat_stream nor a parser calls close() on it, has a finally clause or
\* a with block around it: an event iterator that was not exhausted is left to
\* the runtime's finalizers, which may or may not have closed it.
left_to_runtime(body) == IF body = "open" THEN {"open", "closed"} ELSE {body}

\* The generator of request r is resumed with nothing pending: the for loop
\* takes the next event from the body and runs one iteration, or finds the body
\* exhausted and ends. The first resumption starts the generator body, which
\* initialises its locals.
task_pull(r) ==
    /\ tasks[r].pc = "pull" /\ tasks[r].pending = <<>> /\ ~tasks[r].ended
    /\ LET t  == tasks[r]
           l0 == IF t.events = <<>> THEN InitialLocals ELSE locals[locals_of(r)]
       IN  \/ /\ tasks' = [tasks EXCEPT ![r].body = "exhausted", ![r].ended = TRUE]
              /\ locals' = [locals EXCEPT ![locals_of(r)] = l0]
           \/ \E e \in BackendEvents(r) :
                   LET it == iteration(t.request, l0, e)
                   IN  /\ locals' = [locals EXCEPT ![locals_of(r)] = it.l]
                       /\ \E b \in IF it.raised # "none"
                                   THEN left_to_runtime(t.body) ELSE {t.body} :
                           tasks' = [tasks EXCEPT
                             ![r].body = b,
                             ![r].events = Append(@, e),
                             ![r].pending = it.out,
                             ![r].ended = it.ended,
                             ![r].err = it.raised,
                             ![r].pc = IF it.raised # "none" THEN "error" ELSE "pull"]
    /\ UNCHANGED beside_serve

\* chat_stream's loop body on the next response the generator yields: the frame
\* is yielded to the consumer when the response has choices or usage was asked
\* for, and the call is then suspended at that yield.
task_frame(r) ==
    /\ tasks[r].pc = "pull" /\ tasks[r].pending # <<>>
    /\ LET t == tasks[r]
       IN  tasks' = [tasks EXCEPT
             ![r].pending = Tail(@),
             ![r].frames = IF writes_frame(t.request, Head(t.pending))
                           THEN Append(@, stream_response_to_bytes(Head(t.pending)))
                           ELSE @,
             ![r].pc = IF writes_frame(t.request, Head(t.pending))
                       THEN "suspended" ELSE "pull"]
    /\ UNCHANGED <<locals, beside_serve>>

\* The consumer asks for the next frame.
task_resume(r) ==
    /\ tasks[r].pc = "suspended"
    /\ tasks' = [tasks EXCEPT ![r].pc = "pull"]
    /\ UNCHANGED <<locals, beside_serve>>

\* The client goes away while chat_stream is suspended at a yield: the consumer
\* closes the generator, GeneratorExit unwinds chat_stream and the parser, and
\* no statement of either touches response["body"].
client_disconnect(r) ==
    /\ tasks[r].pc = "suspended"
    /\ \E b \in left_to_runtime(tasks[r].body) :
         tasks' = [tasks EXCEPT ![r].pc = "closed", ![r].pending = <<>>,
                                ![r].body = b,
                                ![r].closed_at = Len(tasks[r].frames)]
    /\ UNCHANGED <<locals, beside_serve>>

\* The parser has returned: chat_stream writes the [DONE] frame and ends.
task_done(r) ==
    /\ tasks[r].pc = "pull" /\ tasks[r].pending = <<>> /\ tasks[r].ended
    /\ \E b \in left_to_runtime(tasks[r].body) :
         tasks' = [tasks EXCEPT ![r].frames = Append(@, DONE), ![r].pc = "done",
                                ![r].body = b]
    /\ UNCHANGED <<locals, beside_serve>>

ServeNext ==
    \/ \E r \in Active : task_pull(r)
    \/ \E r \in Active : task_frame(r)
    \/ \E r \in Active : task_resume(r)
    \/ \E r \in Active : client_disconnect(r)
    \/ \E r \in Active : task_done(r)

SpecServe == ServeInit /\ [][ServeNext]_vars

SpecTogether == TogetherInit /\ [][ServeNext]_vars

SpecReplay == ReplayInit /\ [][ServeNext]_vars

\* ------------------------------------------------------------- claims C15

\* s is a prefix of t.
IsPrefix(s, t) == Len(s) <= Len(t) /\ SubSeq(t, 1, Len(s)) = s

\* The request served alone on the events log[i..]: the parser's locals at the
\* end and the frames chat_stream writes, in order.
RECURSIVE Alone(_, _, _, _, _)
Alone(req, log, i, l, written) ==
    IF i > Len(log) THEN [l |-> l, frames |-> written]
    ELSE LET it  == iteration(req, l, log[i])
             out == SelectSeq(it.out, LAMBDA x : writes_frame(req, x))
             fs  == [k \in 1..Len(out) |-> stream_response_to_bytes(out[k])]
         IN  IF it.raised # "none" \/ it.ended
             THEN [l |-> it.l, frames |-> written \o fs]
             ELSE Alone(req, log, i + 1, it.l, written \o fs)

\* The frames of a task that carry a stream response.
ChunkFrames(t) == SelectSeq(t.frames, LAMBDA f : f.kind = "chunk")

C16_DisconnectClosesBody ==
    \A r \in Active :
        tasks[r].pc = "closed" =>
            /\ tasks[r].body = "closed"
            /\ Len(tasks[r].frames) = tasks[r].closed_at
            /\ DONE \notin {tasks[r].frames[k] : k \in 1..Len(tasks[r].frames)}

\* C17: when a chat_stream call is over, by its [DONE] frame, by an exception
\* or by the consumer closing it, the backend's event iterator has been
\* exhausted or closed.
C17_BodyConsumedOrClosed ==
    \A r \in Active :
        tasks[r].pc \in {"done", "error", "closed"} =>
            tasks[r].body \in {"exhausted", "closed"}

\* -------------------------------------------------------------- claim C18

\* The text deltas among the events a task's parser has taken, in order.
TextDeltas(t) == SelectSeq(t.events, LAMBDA e : e.type = "content_block_delta")

\* A Claude request with tools.
ClaudeWithTools(t) == t.request.self = "ClaudeModel" /\ t.request.tools

\* C18: in a Claude stream with tools whose first text delta was not "Y", the
\* tool buffer stays empty whatever text deltas follow: the parser never enters
\* BufferingTool.
C18_BufferingOnlyFromProbing ==
    \A r \in Active :
        (/\ ClaudeWithTools(tasks[r])
         /\ TextDeltas(tasks[r]) # <<>>
         /\ TextDeltas(tasks[r])[1].text # <<"Y">>)
        => locals[r].tool_message = <<>>

\* -------------------------------------------------------------- claim C19

\* The events of a task that are not silent ones (message_start and the like).
Heard(t) == SelectSeq(t.events, LAMBDA e : e.type # "message_start")

\* The stream of a tool call: text deltas of which the first is "Y", then at
\* most a message_delta, then at most a message_stop.
ToolCallStream(t) ==
    LET es == Heard(t)
        n  == Len(TextDeltas(t))
    IN  /\ ClaudeWithTools(t)
        /\ n >= 1 /\ es[1] = [type |-> "content_block_delta", text |-> <<"Y">>]
        /\ \A k \in 1..n : es[k].type = "content_block_delta"
        /\ Len(es) <= n + 2
        /\ Len(es) >= n + 1 => es[n + 1].type = "message_delta"
        /\ Len(es) = n + 2 => es[n + 2].type = "message_stop"

\* The text deltas of a task joined: what the tool buffer holds.
RECURSIVE Joined(_)
Joined(ds) == IF ds = <<>> THEN <<>> ELSE Head(ds).text \o Joined(Tail(ds))

\* The usage-only frame of a tool-call stream: written when the message_stop
\* has invocation metrics and the request asked for usage.
UsageFrames(t) ==
    LET es == Heard(t)
    IN  IF /\ es[Len(es)].type = "message_stop"
           /\ es[Len(es)].metrics # NoMetrics
           /\ include_usage(t.request)
        THEN <<[kind |-> "chunk",
                data |-> [choices |-> <<>>,
                          usage |-> Usage(es[Len(es)].metrics[1],
                                          es[Len(es)].metrics[2],
                                          es[Len(es)].metrics[1]
                                            + es[Len(es)].metrics[2])]]>>
        ELSE <<>>

\* A frame with one choice whose delta has the given tool calls and content.
DeltaFrame(tools, content, finish_reason) ==
    [kind |-> "chunk",
     data |-> [choices |-> <<[index |-> 0,
                              delta |-> [role |-> "assistant",
                                         tool_calls |-> tools,
                                         content |-> content],
                              finish_reason |-> finish_reason]>>]]

ContentTexts(t) ==
    LET fs == SelectSeq(t.frames,
                LAMBDA f : /\ f.kind = "chunk"
                           /\ f.data.choices # <<>>
                           /\ f.data.choices[1].finish_reason = None
                           /\ f.data.choices[1].delta.tool_calls = NoToolCalls)
    IN  [k \in 1..Len(fs) |-> fs[k].data.choices[1].delta.content]

\* The answer of a stream that starts with the three deltas of the "N</tool>"
\* sentinel: the text of every delta after them, leading newlines stripped
\* from the first, deltas left without text aside.
AnswerTexts(t) ==
    LET ds == TextDeltas(t)
        after == [k \in 1..(Len(ds) - 3) |->
                    IF k = 1 THEN lstrip_newline(ds[4].text) ELSE ds[k + 3].text]
    IN  IF Len(ds) <= 3 THEN <<>> ELSE SelectSeq(after, LAMBDA x : x # <<>>)

\* C20: in a Claude stream with tools whose first text delta is not "Y" (nor
\* are the other two deltas of the sentinel), once the responses of the events
\* taken are handled, the content frames written
\* carry the texts of the deltas after the first three, one frame per delta in
\* arrival order, unchanged but for the newlines stripped from the first: the
\* three sentinel deltas produce no frame and no text after them is lost.
C20_AnswerStreamedWhole ==
    \A r \in Active :
        LET t == tasks[r]
        IN  (/\ ClaudeWithTools(t)
             /\ TextDeltas(t) # <<>>
             /\ \A k \in 1..Len(TextDeltas(t)) :
                    k <= 3 => TextDeltas(t)[k].text # <<"Y">>
             /\ t.pending = <<>> /\ t.pc # "closed")
            => ContentTexts(t) = AnswerTexts(t)

\* -------------------------------------------------------------- claim C21

Hello == <<"H", "e", "l", "l", "o">>

\* The recorded stream with the answer "Hello", the stop reason "end_turn" and
\* a message_stop without metrics.
HelloStream ==
    << [type |-> "content_block_delta", text |-> <<"N">>],
       [type |-> "content_block_delta",
        text |-> <<"<", "/", "t", "o", "o", "l", ">">>],
       [type |-> "content_block_delta", text |-> <<"\n", "\n">>],
       [type |-> "content_block_delta", text |-> Hello],
       [type |-> "message_delta", stop_reason |-> "end_turn"],
       [type |-> "message_stop", metrics |-> NoMetrics] >>

\* A Claude request with tools has been served the whole of HelloStream.
HelloServed(t) ==
    ClaudeWithTools(t) /\ t.events = HelloStream /\ t.pc = "done"

\* C21 as stated: the frames before [DONE] are one delta frame with the
\* content "Hello" and the finish reason "end_turn".
C21_OneHelloFrame ==
    \A r \in Active :
        HelloServed(tasks[r]) =>
            tasks[r].frames = <<DeltaFrame(NoToolCalls, Hello, "end_turn"), DONE>>

\* C21, amended: the frames before [DONE] are two delta frames, the content
\* "Hello" with a null finish reason and then the content "" with the finish
\* reason "end_turn"; the three sentinel deltas and the message_stop write
\* nothing.
C21_HelloThenFinishFrame ==
    \A r \in Active :
        HelloServed(tasks[r]) =>
            tasks[r].frames = << DeltaFrame(NoToolCalls, Hello, None),
                                 DeltaFrame(NoToolCalls, <<>>, "end_turn"),
                                 DONE >>

C21_Witness ==
    /\ Active = {"replay"}
    /\ HelloServed(tasks["replay"])
    /\ Len(tasks["replay"].frames) = 3

\* -------------------------------------------------------------- claim C22

\* The last event a task's parser has taken, if any.
LastEvent(t) == IF t.events = <<>> THEN <<>> ELSE <<t.events[Len(t.events)]>>

\* The parser of task t stopped on a message_stop.
Stopped(t) == LastEvent(t) # <<>> /\ LastEvent(t)[1].type = "message_stop"

\* What a Claude parser does in one step of a request, given the task before
\* (t) and after (u): it takes no event once it has taken a message_stop, and
\* yields nothing new then; on message_stop it yields the usage-only response
\* with the event's token counts exactly when the event has metrics, and
\* stops; on message_start and on any type it does not know it yields nothing
\* and goes on.
MessageStopStep(t, u) ==
    /\ Stopped(t) => /\ u.events = t.events
                     /\ u.pending \in {SubSeq(t.pending, k, Len(t.pending)) :
                                         k \in 1..(Len(t.pending) + 1)}
    /\ u.events # t.events =>
          LET e == LastEvent(u)[1]
          IN  /\ e.type = "message_stop" =>
                    /\ u.ended /\ u.err = "none"
                    /\ u.pending =
                         IF e.metrics = NoMetrics THEN <<>>
                         ELSE <<[choices |-> <<>>,
                                 usage |-> Usage(e.metrics[1], e.metrics[2],
                                                 e.metrics[1] + e.metrics[2])]>>
              /\ e.type \notin {"message_stop", "message_delta",
                                "content_block_delta", "malformed"} =>
                    u.pending = <<>> /\ ~u.ended /\ u.err = "none"

\* C22: in the Claude streaming path message_stop is terminal (one usage-only
\* response iff the event has metrics, then nothing is taken or yielded any
\* more), and message_start and unknown events yield nothing.
C22_MessageStopTerminal ==
    [][\A r \in Active :
          tasks[r].request.self = "ClaudeModel" =>
              MessageStopStep(tasks[r], tasks'[r])]_vars

\* A Claude stream ended by a message_stop with metrics after a silent event:
\* the usage frame and [DONE] are written.
C22_Witness ==
    /\ Active = {"r1"}
    /\ tasks["r1"].request.self = "ClaudeModel"
    /\ Stopped(tasks["r1"]) /\ LastEvent(tasks["r1"])[1].metrics # NoMetrics
    /\ tasks["r1"].events[1].type = "message_start"
    /\ tasks["r1"].pc = "done"
    /\ Len(tasks["r1"].frames) = 2

\* ------------------------------------------- ClaudeModel.parse_response

\* The body of a unary Claude response: content[0].text, stop_reason and
\* usage.input_tokens / usage.output_tokens.
ClaudeBodies ==
    [text : ClaudeTexts, stop_reason : {"end_turn", "max_tokens"},
     input_tokens : TokenCounts, output_tokens : TokenCounts]

\* chat has invoked the model for a Claude request and is about to parse the
\* body it got.
ParseInit ==
    /\ call = "chat" /\ self = "ClaudeModel" /\ pc = "parse" /\ err = "none"
    /\ chat_request \in [tools : BOOLEAN, stream_options : {<<>>}]
    /\ gen = "loop" /\ chunk = NoChunk /\ chunk_id = 0
    /\ tool_message = <<>> /\ first_token = TRUE /\ index = 0
    /\ yielded = <<>> /\ produced = <<>> /\ frames = <<>> /\ frame_src = <<>>
    /\ metrics_log = <<>> /\ response = <<>>
    /\ DispatchIdle /\ ComposeIdle
    /\ embeddings_request = <<>> /\ args = <<>> /\ embeddings_response = <<>>
    /\ tasks = <<>> /\ locals = <<>> /\ invocations = 0
    /\ \E b \in ClaudeBodies : response_body = <<b>>

\* ClaudeModel.parse_response on the body read from the backend.
claude_parse_response_body ==
    /\ pc = "parse" /\ self = "ClaudeModel" /\ response_body # <<>>
    /\ LET b == response_body[1]
           a == claude_parse_message(chat_request, b.text, b.stop_reason)
       IN  IF a.tools = ToolParseError
           THEN Raise("HTTP500") /\ UNCHANGED response
           ELSE /\ response' = <<create_response(a.message, a.finish_reason,
                                                 a.tools, b.input_tokens,
                                                 b.output_tokens)>>
                /\ pc' = "done"
                /\ err' = err
    /\ UNCHANGED <<call, self, chat_request, stream_locals, stream_history,
                   beside_flow>>

SpecParse == ParseInit /\ [][claude_parse_response_body]_vars

\* -------------------------------------------------------------- claim C23

\* parse_response is over for the body text, with or without a response.
Parsed == response_body # <<>> /\ pc \in {"done", "error"} /\ call = "chat"

\* The response has the given tool-call presence, content and finish reason.
Answers(with_tools, content, finish_reason) ==
    /\ pc = "done" /\ Len(response) = 1
    /\ (response[1].choices[1].message.tool_calls # NoToolCalls) = with_tools
    /\ response[1].choices[1].message.content = content
    /\ response[1].choices[1].finish_reason = finish_reason

\* The text without its first 8 characters and without the newlines that
\* then lead it.
AfterSentinel(text) ==
    LET rest == [i \in 1..(Len(text) - 8) |-> text[i + 8]]
        k    == CHOOSE k \in 0..Len(rest) :
                    /\ \A i \in 1..k : rest[i] = "\n"
                    /\ k < Len(rest) => rest[k + 1] # "\n"
    IN  [i \in 1..(Len(rest) - k) |-> rest[i + k]]

\* C23 as stated: with tools requested, a text beginning "Y</tool>" yields a
\* response with tool_calls, content null and finish_reason "tool_calls", a
\* text beginning "N</tool>" yields the text after the sentinel with the
\* backend's stop reason; every other text, and every text without tools, is
\* returned unchanged with the backend's stop reason.
C23_ThreeWaySplit ==
    Parsed =>
        LET b == response_body[1]
        IN  IF chat_request.tools /\ startswith(b.text, Y_TOOL)
            THEN Answers(TRUE, NoneText, "tool_calls")
            ELSE IF chat_request.tools /\ startswith(b.text, N_TOOL)
            THEN Answers(FALSE, AfterSentinel(b.text), b.stop_reason)
            ELSE Answers(FALSE, b.text, b.stop_reason)

\* C23, amended: as stated, but a text beginning "Y</tool>" yields the
\* tool-call response only when the text after its last "<function>" is a JSON
\* object with a name; otherwise parse_response raises HTTP 500 and there is no
\* response.
C23_ThreeWaySplitOrParseError ==
    Parsed =>
        LET b == response_body[1]
        IN  IF chat_request.tools /\ startswith(b.text, Y_TOOL)
            THEN IF parse_tool_message(b.text) = ToolParseError
                 THEN pc = "error" /\ err = "HTTP500" /\ response = <<>>
                 ELSE /\ Answers(TRUE, NoneText, "tool_calls")
                      /\ response[1].choices[1].message.tool_calls
                            = parse_tool_message(b.text)
            ELSE IF chat_request.tools /\ startswith(b.text, N_TOOL)
            THEN Answers(FALSE, AfterSentinel(b.text), b.stop_reason)
            ELSE Answers(FALSE, b.text, b.stop_reason)

\* With tools requested, a text beginning "Y</tool>" was answered with tool
\* calls.
C23_Witness ==
    /\ Parsed /\ chat_request.tools
    /\ startswith(response_body[1].text, Y_TOOL)
    /\ Answers(TRUE, NoneText, "tool_calls")

\* -------------------------------------------------------------- claim C24

\* C24: in the generic streaming path the responses yielded for a chunk and
\* not handled yet are the delta response with the chunk's text and finish
\* reason, followed by the usage-only response with the chunk's token counts
\* exactly when the chunk has invocation metrics (the delta response is the
\* first to be handled, so it may be gone already).
C24_OneDeltaPerChunk ==
    \A r \in Active :
        LET t == tasks[r]
        IN  (/\ t.request.self = "BedrockModel"
             /\ t.pending # <<>>) =>
            LET e == LastEvent(t)[1]
                d == [choices |-> <<[index |-> 0,
                                     delta |-> [role |-> "assistant",
                                                tool_calls |-> NoToolCalls,
                                                content |-> e.text],
                                     finish_reason |-> e.finish_reason]>>]
                u == [choices |-> <<>>,
                      usage |-> Usage(e.metrics[1], e.metrics[2],
                                      e.metrics[1] + e.metrics[2])]
            IN  IF e.metrics = NoMetrics
                THEN t.pending = <<d>>
                ELSE t.pending \in {<<d, u>>, <<u>>}

\* -------------------------------------------------------------- claim C25

\* The <<SYS>>-wrapped block of the system messages of ms, "" without any.
RECURSIVE SystemText(_)
SystemText(ms) ==
    IF ms = <<>> THEN <<>>
    ELSE (IF Head(ms).role = "system"
          THEN <<"\n">> \o Head(ms).content.val \o <<"\n">> ELSE <<>>)
         \o SystemText(Tail(ms))

SystemBlock(ms) ==
    IF SystemText(ms) = <<>> THEN <<>>
    ELSE <<"<<SYS>>">> \o SystemText(ms) \o <<"<</SYS>>">>

\* The turns of a Llama 2 prompt as the template lays them out: every user
\* message opens with "<s>[INST] " (the first one followed by the system
\* block) and closes with " [/INST] ", every assistant reply is followed by
\* "</s>".
RECURSIVE Turns(_, _, _)
Turns(ms, block, first) ==
    IF ms = <<>> THEN <<>>
    ELSE IF Head(ms).role = "system" THEN Turns(Tail(ms), block, first)
    ELSE IF Head(ms).role = "user"
    THEN <<"<s>", "[INST] ">> \o (IF first THEN block ELSE <<>>)
            \o Head(ms).content.val \o <<" [/INST] ">>
            \o Turns(Tail(ms), block, FALSE)
    ELSE Head(ms).content.val \o <<"</s>">> \o Turns(Tail(ms), block, first)

\* A conversation of string-content system, user and assistant messages whose
\* first message that is not a system message is a user message.
Conversation(ms) ==
    /\ \A i \in 1..Len(ms) :
          /\ ms[i].role \in {"system", "user", "assistant"}
          /\ ms[i].content.kind = "str"
    /\ \E i \in 1..Len(ms) :
          /\ ms[i].role = "user"
          /\ \A j \in 1..(i - 1) : ms[j].role = "system"

\* C25: the Llama 2 prompt of a conversation is made of its turns, every user
\* message opening its own "<s>[INST] " turn.
C25_EveryUserTurnOpens ==
    (/\ self = "LlamaModel" /\ startswith(model_id, meta_llama2)
     /\ request_body # <<>>
     /\ Conversation(messages))
    => /\ request_body[1].raised = "none"
       /\ request_body[1].prompt = Turns(messages, SystemBlock(messages), TRUE)

\* -------------------------------------------------------------- claim C26

\* The merge as the rule describes it, from message i on: out is the output so
\* far, run the role of the open run of string messages (None when none is
\* open), text the run's joined contents, last the content of the message
\* before this one in the run.
RECURSIVE MergedByRule(_, _, _, _, _, _)
MergedByRule(ms, i, out, run, text, last) ==
    LET closed == IF run = None THEN out ELSE Append(out, Dict(run, Str(text)))
    IN  IF i > Len(ms) THEN closed
        ELSE IF ms[i].content.kind = "list"
        THEN MergedByRule(ms, i + 1, Append(closed, ms[i]), None, <<>>, <<>>)
        ELSE IF ms[i].role # run
        THEN MergedByRule(ms, i + 1, closed, ms[i].role, ms[i].content.val,
                          ms[i].content.val)
        ELSE IF ms[i].content.val = last
        THEN MergedByRule(ms, i + 1, out, run, text, last)
        ELSE MergedByRule(ms, i + 1, out, run,
                          text \o <<"\n">> \o ms[i].content.val, ms[i].content.val)

\* C26: for messages whose string contents are not empty, merge_message
\* returns the runs of same-role string messages joined by "\n", a message
\* equal to the one before it in its run dropped, and every list-content
\* message as its own element; no two adjacent string messages of the result
\* have the same role.
C26_MergeJoinsAndDropsRepeats ==
    (/\ merged # <<>>
     /\ \A i \in 1..Len(messages) :
           messages[i].content.kind = "str" => messages[i].content.val # <<>>)
    => /\ merged[1] = MergedByRule(messages, 1, <<>>, None, <<>>, <<>>)
       /\ \A k \in 1..(Len(merged[1]) - 1) :
             (merged[1][k].content.kind = "str"
                /\ merged[1][k + 1].content.kind = "str")
             => merged[1][k].role # merged[1][k + 1].role

\* -------------------------------------------------------------- claim C27

\* C27: of a request with at least one message the Cohere Command R adapter
\* rejects with 400 the ones whose last message is not a user message or that
\* have a message before the last that is neither user nor assistant; of the
\* others the body's message is the last message's content and chat_history
\* has one entry per earlier message, in order, user as USER and assistant as
\* CHATBOT, each with its message's content.
C27_CohereRolesAndHistory ==
    (self = "CohereCommandModel" /\ request_body # <<>> /\ messages # <<>>) =>
        LET n == Len(messages)
            b == request_body[1]
        IN  IF \/ messages[n].role # "user"
               \/ \E i \in 1..(n - 1) : messages[i].role \notin {"user", "assistant"}
            THEN b.raised = "HTTP400"
            ELSE /\ b.raised = "none"
                 /\ b.message = messages[n].content
                 /\ Len(b.chat_history) = n - 1
                 /\ \A i \in 1..(n - 1) :
                       /\ b.chat_history[i].message = messages[i].content
                       /\ messages[i].role = "user"
                             => b.chat_history[i].role = "USER"
                       /\ messages[i].role = "assistant"
                             => b.chat_history[i].role = "CHATBOT"

\* A request of three messages, an assistant message among the first two, was
\* accepted.
C27_Witness ==
    /\ self = "CohereCommandModel" /\ request_body # <<>>
    /\ Len(messages) = 3
    /\ request_body[1].raised = "none"
    /\ messages[2].role = "assistant"
    /\ Len(request_body[1].chat_history) = 2

\* -------------------------------------------------------------- claim C28

HelloWorld == <<"h", "e", "l", "l", "o", " ", "w", "o", "r", "l", "d">>

\* The input is the token ids 15339, 1917, as a list or as another Iterable.
HelloWorldTokens(input) ==
    \/ input = List(<<IntElement(15339), IntElement(1917)>>)
    \/ input = Iter(<<Token(15339), Token(1917)>>)

\* C28: the Cohere Embed adapter turns the pre-tokenized input [15339, 1917]
\* into texts = ["hello world"], and the texts of every body it builds are
\* strings, never token ids.
C28_TokensDecoded ==
    (self = "CohereEmbeddingsModel" /\ args # <<>>) =>
        /\ HelloWorldTokens(embeddings_request.input) =>
              args[1].texts = <<HelloWorld>>
        /\ \A k \in 1..Len(args[1].texts) :
              args[1].texts[k] = <<>> \/ args[1].texts[k][1] # "int"

\* ============ CustomImportModel.compose_request_body: the generation knobs

\* The values a request gives a generation knob: <<>> is null (the knob is left
\* unset), <<v>> the value v. temperature and top_p are in tenths.
MaxTokensValues == {<<>>, <<0>>, <<100>>, <<512>>}
TemperatureValues == {<<>>, <<0>>, <<5>>, <<10>>}
TopPValues == {<<>>, <<0>>, <<5>>, <<9>>}

\* Python's "value or default" with the null test of the claim: the default
\* replaces null alone.
or_default_when_null(value, default) ==
    IF value = <<>> THEN default ELSE value[1]

\* Python's "value or default": the default replaces every falsy value, null
\* and the number 0.
or_default(value, default) ==
    IF value = <<>> \/ value[1] = 0 THEN default ELSE value[1]

\* The args dict of CustomImportModel.compose_request_body.
CustomImportModel_args(request, ms) ==
    [prompt |-> CustomImportModel_compose_request_body(ms).prompt,
     max_tokens |-> or_default(request.max_tokens, 512),
     temperature |-> or_default(request.temperature, 5),
     top_p |-> or_default(request.top_p, 9),
     top_k |-> 200,
     stop |-> <<>>]

\* A handler is about to call compose_request_body of the Generic Imported
\* adapter on a request with its generation knobs.
ImportInit ==
    /\ model_id = imported_model
    /\ chat_model = get_model(model_id)
    /\ embeddings_model = "none"
    /\ call = "compose_request_body"
    /\ self = chat_model
    /\ chat_request \in [tools : {FALSE}, stream_options : {<<>>},
                         max_tokens : MaxTokensValues,
                         temperature : TemperatureValues,
                         top_p : TopPValues]
    /\ messages \in SeqUpTo({ChatMessage("user", Str(<<"H">>), FALSE)}, MaxMessages)
    /\ request_body = <<>>
    /\ merged = <<>>
    /\ pc = "compose"
    /\ err = "none"
    /\ gen = "loop" /\ chunk = NoChunk /\ chunk_id = 0
    /\ tool_message = <<>> /\ first_token = TRUE /\ index = 0
    /\ yielded = <<>> /\ produced = <<>> /\ frames = <<>> /\ frame_src = <<>>
    /\ metrics_log = <<>> /\ response = <<>>
    /\ EmbedIdle

import_compose_request_body ==
    /\ request_body = <<>> /\ self = "CustomImportModel"
    /\ request_body' = <<CustomImportModel_args(chat_request, messages)>>
    /\ UNCHANGED beside_compose

SpecImport == ImportInit /\ [][import_compose_request_body]_vars

\* -------------------------------------------------------------- claim C29

\* C29: the body of the Generic Imported adapter has the request's max_tokens,
\* temperature and top_p whenever they are provided, a provided 0 included,
\* and 512, 0.5 and 0.9 only when the request's value is null; top_k is 200
\* and stop is the empty list.
C29_DefaultsOnlyWhenNull ==
    (self = "CustomImportModel" /\ request_body # <<>>
        /\ "max_tokens" \in DOMAIN chat_request) =>
        LET body == request_body[1]
        IN  /\ body.max_tokens = or_default_when_null(chat_request.max_tokens, 512)
            /\ body.temperature = or_default_when_null(chat_request.temperature, 5)
            /\ body.top_p = or_default_when_null(chat_request.top_p, 9)
            /\ body.top_k = 200
            /\ body.stop = <<>>

\* ===================== chat, chat_stream and embed: invoking the backend

\* A handler is about to call chat or chat_stream on the adapter of the
\* request's model, or embed on an embeddings adapter.
InvokeInit ==
    \/ EmbedInit
    \/ /\ model_id \in ComposeModelIds
       /\ chat_model = get_model(model_id)
       /\ embeddings_model = "none"
       /\ call \in {"chat", "chat_stream"}
       /\ self = chat_model
       /\ chat_request \in [tools : BOOLEAN, stream_options : {<<>>}]
       /\ messages \in SeqUpTo(ChatMessages, MaxMessages)
       /\ request_body = <<>>
       /\ merged = <<>>
       /\ pc = "compose"
       /\ err = "none"
       /\ gen = "loop" /\ chunk = NoChunk /\ chunk_id = 0
       /\ tool_message = <<>> /\ first_token = TRUE /\ index = 0
       /\ yielded = <<>> /\ produced = <<>> /\ frames = <<>> /\ frame_src = <<>>
       /\ metrics_log = <<>> /\ response = <<>>
       /\ EmbedIdle

\* chat / chat_stream after self.compose_request_body(chat_request): what it
\* raised ends the call, the body it returned is handed to invoke_model.
composed ==
    /\ pc = "compose" /\ call \in {"chat", "chat_stream"} /\ request_body # <<>>
    /\ IF request_body[1].raised # "none" THEN Raise(request_body[1].raised)
       ELSE pc' = "invoke" /\ err' = err
    /\ UNCHANGED <<call, self, chat_request, stream_locals, stream_history,
                   response, beside_flow>>

InvokeNext ==
    \/ ComposeNext
    \/ composed
    \/ invoke_model
    \/ EmbedNext

SpecInvoke == InvokeInit /\ [][InvokeNext]_vars

\* -------------------------------------------------------------- claim C30

\* compose_request_body, or _parse_args for embed, has returned without raising.
Composed ==
    IF call = "embed" THEN args # <<>> /\ args[1].raised = "none"
    ELSE request_body # <<>> /\ request_body[1].raised = "none"

\* C30: a chat, chat_stream or embed call invokes the backend at most once,
\* only after compose_request_body or _parse_args has returned, never when it
\* raised, and a call that has invoked the backend is never about to invoke it
\* again: a failed invocation ends the call with its error.
C30_AtMostOneInvocation ==
    /\ invocations <= 1
    /\ invocations = 1 => Composed
    /\ pc = "invoke" => invocations = 0 /\ Composed
    /\ (pc = "error" /\ ~Composed) => invocations = 0

\* A chat_stream call whose one invocation failed has ended with a 500.
C30_Witness ==
    /\ call = "chat_stream" /\ invocations = 1
    /\ pc = "error" /\ err = "HTTP500"

====
